---------------------------- MODULE Spec2Model ----------------------------
(***************************************************************************)
(* Ledger core of the bank super-app backend: the request handlers of      *)
(* app/routers (transfers, services, loans, deposits, insurance) acting on *)
(* the tables of app/db/models.py.                                         *)
(*                                                                         *)
(* Money is counted in quarter-cents (CENT = 4 units), so that a request   *)
(* amount may carry more than two decimal places while every stored        *)
(* Numeric(_, 2) column holds a multiple of CENT.  Strings that the code   *)
(* inspects character by character (phones, card numbers) are sequences of *)
(* one-character strings.  A null reference (None) is 0; row ids are the   *)
(* positions 1, 2, ... in the table's sequence.  A query without ORDER BY  *)
(* returns its rows in the order of their ids.                             *)
(***************************************************************************)
EXTENDS Integers, Sequences, FiniteSets, TLC

VARIABLES
    users,          \* table users: <<[phone]>>
    accounts,       \* table accounts: <<[user_id, card_number, balance, is_blocked]>>
    transactions,   \* table transactions: <<[from_account_id, to_account_id, amount, category]>>
    loans,          \* table loans: <<[user_id, amount, term_months, monthly_payment, created_at, is_active, type]>>
    schedules,      \* table loan_schedules: <<[loan_id, due_date, amount, is_paid]>>
    deposits,       \* table deposits: <<[user_id, amount, term_months, type, is_active]>>
    insurances,     \* table insurances: <<[user_id, insurance_type, monthly_cost, term_months, is_active]>>
    now,            \* datetime.utcnow(), in days
    resp,           \* the response to the latest request
    sessions,       \* requests in flight (one database session each)
    phone,          \* a to_phone on its way through the normalization of make_transfer
    request,        \* the body of the loan application being scored (LoanRequest)
    amortization    \* a loan paid off month by month with the payment apply_loan computes

db == <<users, accounts, transactions, loans, schedules, deposits, insurances>>
vars == <<users, accounts, transactions, loans, schedules, deposits, insurances, now, resp, sessions,
          phone, request, amortization>>

(***************************************************************************)
(* Bounds of the model.                                                    *)
(***************************************************************************)
MaxTx == 2          \* transfers and service payments in the log
MaxLoans == 1       \* rows of the loans table
MaxTerm == 2        \* largest term_months requested
MaxNow == 1         \* days the clock advances
MaxSessions == 2    \* requests in flight at once

None == 0

(***************************************************************************)
(* Money.                                                                  *)
(***************************************************************************)
\* One currency minor unit (0.01) in model units: Numeric(10, 2) keeps two
\* decimal places, the model keeps a quarter of a cent.
CENT == 4

Abs(x) == IF x < 0 THEN -x ELSE x

\* PostgreSQL's coercion of a decimal to a Numeric(_, 2) column: round to
\* two decimal places, ties away from zero.
Numeric2(x) ==
    IF x >= 0 THEN ((x + CENT \div 2) \div CENT) * CENT
    ELSE -(((-x + CENT \div 2) \div CENT) * CENT)

Min(S) == CHOOSE x \in S : \A y \in S : x <= y

\* Python's s[-4:]
Last4(s) == IF Len(s) <= 4 THEN s ELSE SubSeq(s, Len(s) - 3, Len(s))

\* Python's s.replace(c, "") for every c in chars
RECURSIVE Strip(_, _)
Strip(s, chars) ==
    IF s = <<>> THEN <<>>
    ELSE IF Head(s) \in chars THEN Strip(Tail(s), chars)
    ELSE <<Head(s)>> \o Strip(Tail(s), chars)

(***************************************************************************)
(* Initial data: three customers; customer 1 owns accounts 1 and 2,        *)
(* customer 2 owns account 3, customer 3 owns none.                        *)
(***************************************************************************)
Phone1 == <<"8","7","0","1","0","0","0","0","0","0","1">>
Phone2 == <<"8","7","0","1","0","0","0","0","0","0","2">>
Phone3 == <<"8","7","0","1","0","0","0","0","0","0","3">>
Card1 == <<"4","4","0","0","0","1">>
Card2 == <<"4","4","0","0","0","2">>
Card3 == <<"4","4","0","0","0","3">>

Customers == {1, 2, 3}

\* Request inputs.
PhoneInputs ==
    { <<"+","7"," ","(","7","0","1",")"," ","0","0","0","-","0","0","-","0","2">>,
      <<"7","0","1","0","0","0","0","0","0","1">>,
      Phone3,
      <<"8","7","0","1","9","9","9","9","9","9","9">> }
CardInputs ==
    { Card2,
      <<"4","4","0"," ","0","0","3">>,
      <<"9","9","9","9","1","2","3","4">> }
\* (to_phone, to_card) of a TransferRequest; <<>> is None
Destinations ==
    {<<p, <<>>>> : p \in PhoneInputs} \cup {<<<<>>, c>> : c \in CardInputs}
        \cup {<<<<>>, <<>>>>, <<Phone2, Card1>>, <<<<"+">>, Card3>>, <<<<"-">>, <<>>>>}
\* TransferRequest.amount: Decimal, gt=0
TransferAmounts == {CENT \div 2, CENT}
FromAccountIds == {None, 2, 3}
\* Whole-cent requests of customers 1 and 2 to every destination; requests
\* with a third decimal place to a known phone and to an unknown card;
\* customer 3 owns no account: one request of theirs stands for all.
TransferRequests ==
    {<<u, f, d, CENT>> : u \in {1, 2}, f \in FromAccountIds, d \in Destinations}
        \cup {<<1, None, d, a>> : a \in TransferAmounts,
                 d \in { <<<<"+","7"," ","(","7","0","1",")"," ","0","0","0","-","0","0","-","0","2">>, <<>>>>,
                         <<<<>>, <<"9","9","9","9","1","2","3","4">>>> }}
        \cup {<<3, None, <<Phone2, <<>>>>, CENT>>}

\* What a handler answers: the HTTP status, the error raised, and what the
\* claims need of the handler's locals (the rows it touched, the request's
\* amount, how the recipient was designated).
Response(op, code, err, src, dst, amount, ref) ==
    [op |-> op, code |-> code, err |-> err, src |-> src, dst |-> dst,
     amount |-> amount, ref |-> ref, via |-> "none", user |-> None, to_phone |-> <<>>]
Failure(op, code, err) == Response(op, code, err, None, None, 0, None)
Via(r, via) == [r EXCEPT !.via = via]
About(r, ref) == [r EXCEPT !.ref = ref]
By(r, u) == [r EXCEPT !.user = u]
\* the answer a to a transfer request, with the request's user,
\* from_account_id, amount and to_phone
Asked(a, req) ==
    By(About([a EXCEPT !.amount = req.amount, !.to_phone = req.to_phone], req.from_account_id),
       req.user)

\* a faulty variant: the row written over the latest row of the log
LoggedOverLast(log, row) == IF log = <<>> THEN <<row>> ELSE [log EXCEPT ![Len(log)] = row]

\* db.add(tx) and the commit: a new row at the end of the transactions table
Logged(log, row) == Append(log, row)

\* no loan application has been received
NoRequest == [amount |-> 0, term_months |-> 0, income |-> 0, type |-> "none"]

\* no loan is being paid off
NoAmortization ==
    [amount |-> 0, type |-> "none", term_months |-> 0, payment |-> None, month |-> 0,
     owed |-> <<>>, paid |-> <<>>, scale |-> <<>>]

\* the balances the accounts open with
InitialBalance(a) == IF a = 1 THEN CENT ELSE 0

Init ==
    /\ users = <<[phone |-> Phone1], [phone |-> Phone2], [phone |-> Phone3]>>
    /\ \E b3 \in BOOLEAN :
         accounts =
           << [user_id |-> 1, card_number |-> Card1, balance |-> InitialBalance(1), is_blocked |-> FALSE],
              [user_id |-> 1, card_number |-> Card2, balance |-> InitialBalance(2), is_blocked |-> FALSE],
              [user_id |-> 2, card_number |-> Card3, balance |-> InitialBalance(3), is_blocked |-> b3] >>
    /\ transactions = <<>>
    /\ loans = <<>>
    /\ schedules = <<>>
    /\ deposits = <<>>
    /\ insurances = <<>>
    /\ now = 0
    /\ resp = Failure("none", 0, "none")
    /\ sessions = <<>>
    /\ phone = [to_phone |-> <<>>, clean_phone |-> <<>>, pc |-> "none", resent |-> FALSE]
    /\ request = NoRequest
    /\ amortization = NoAmortization

(***************************************************************************)
(* make_transfer (POST /transfers/p2p)                                     *)
(***************************************************************************)
\* a faulty variant: the first active account, funded or not
SelectSenderFirstActive(accs, u, from_id, amount) ==
    LET explicit == {i \in DOMAIN accs : from_id # None /\ i = from_id /\ accs[i].user_id = u}
        active == {i \in DOMAIN accs : accs[i].user_id = u /\ ~accs[i].is_blocked}
    IN  IF explicit # {} THEN Min(explicit)
        ELSE IF active # {} THEN Min(active)
        ELSE None

\* lines 59-81: the account to debit
SelectSender(accs, u, from_id, amount) ==
    LET explicit == {i \in DOMAIN accs : from_id # None /\ i = from_id /\ accs[i].user_id = u}
        active == {i \in DOMAIN accs : accs[i].user_id = u /\ ~accs[i].is_blocked}
        funded == {i \in active : accs[i].balance >= amount}
    IN  IF explicit # {} THEN Min(explicit)
        ELSE IF funded # {} THEN Min(funded)
        ELSE IF active # {} THEN Min(active)
        ELSE None

\* lines 83-88: the checks on the sender, on the balance the session loaded
SenderError(accs, s, balance, amount) ==
    IF s = None THEN Failure("make_transfer", 400, "no_card")
    ELSE IF accs[s].is_blocked THEN Failure("make_transfer", 403, "blocked")
    ELSE IF balance < amount THEN Failure("make_transfer", 400, "insufficient")
    ELSE Failure("make_transfer", 200, "none")

\* a faulty variant: without the branch of lines 101-102
CleanPhoneElevenOnly(to_phone) ==
    LET clean == Strip(to_phone, {" ", "+", "-", "(", ")"})
    IN  IF Len(clean) = 11 /\ Head(clean) = "7" THEN <<"8">> \o Tail(clean)
        ELSE clean

\* lines 93-102
CleanPhone(to_phone) ==
    LET clean == Strip(to_phone, {" ", "+", "-", "(", ")"})
    IN  IF Len(clean) = 11 /\ Head(clean) = "7" THEN <<"8">> \o Tail(clean)
        ELSE IF Len(clean) = 10 THEN <<"8">> \o clean
        ELSE clean

\* line 104
CleanCard(to_card) == Strip(to_card, {" "})

\* a faulty variant: the recipient's first account, blocked or not
SelectRecipientFirstOwned(usrs, accs, to_phone, to_card) ==
    LET clean_phone == CleanPhone(to_phone)
        clean_card == CleanCard(to_card)
    IN  IF clean_phone # <<>> THEN
            LET found == {u \in DOMAIN usrs : usrs[u].phone = clean_phone}
            IN  IF found = {} THEN [err |-> "client_not_found", code |-> 404, id |-> None, via |-> "phone"]
                ELSE LET owned == {i \in DOMAIN accs : accs[i].user_id \in found}
                     IN  IF owned # {} THEN [err |-> "none", code |-> 200, id |-> Min(owned), via |-> "phone"]
                         ELSE [err |-> "no_recipient_card", code |-> 400, id |-> None, via |-> "phone"]
        ELSE IF clean_card # <<>> THEN
            LET found == {i \in DOMAIN accs : accs[i].card_number = clean_card}
            IN  [err |-> "none", code |-> 200, id |-> IF found = {} THEN None ELSE Min(found),
                 via |-> "card"]
        ELSE [err |-> "none", code |-> 200, id |-> None, via |-> "nobody"]

\* lines 106-130: the account to credit; id = None with no error is a
\* transfer to another bank; via tells which branch resolved the recipient
SelectRecipient(usrs, accs, to_phone, to_card) ==
    LET clean_phone == CleanPhone(to_phone)
        clean_card == CleanCard(to_card)
    IN  IF clean_phone # <<>> THEN
            LET found == {u \in DOMAIN usrs : usrs[u].phone = clean_phone}
            IN  IF found = {} THEN [err |-> "client_not_found", code |-> 404, id |-> None, via |-> "phone"]
                ELSE LET owned == {i \in DOMAIN accs : accs[i].user_id \in found}
                         open == {i \in owned : ~accs[i].is_blocked}
                     IN  IF open # {} THEN [err |-> "none", code |-> 200, id |-> Min(open), via |-> "phone"]
                         ELSE IF owned # {} THEN [err |-> "none", code |-> 200, id |-> Min(owned), via |-> "phone"]
                         ELSE [err |-> "no_recipient_card", code |-> 400, id |-> None, via |-> "phone"]
        ELSE IF clean_card # <<>> THEN
            LET found == {i \in DOMAIN accs : accs[i].card_number = clean_card}
            IN  [err |-> "none", code |-> 200, id |-> IF found = {} THEN None ELSE Min(found),
                 via |-> "card"]
        ELSE [err |-> "none", code |-> 200, id |-> None, via |-> "nobody"]

\* line 142 / line 145
TransferCategory(r, to_card) ==
    IF r # None THEN <<"transfer_to_client">>
    ELSE <<"transfer_to_other_bank">> \o
         (IF CleanCard(to_card) # <<>> THEN Last4(CleanCard(to_card)) ELSE <<"E","X","T">>)

\* lines 136-154: the unit of work, on the balances the session holds
TransferWrite(accs, s, sbal, r, rbal, amount) ==
    [i \in DOMAIN accs |->
        IF i = s THEN [accs[i] EXCEPT !.balance = Numeric2(sbal - amount)]
        ELSE IF i = r THEN [accs[i] EXCEPT !.balance = Numeric2(rbal + amount)]
        ELSE accs[i]]

TransferRow(s, r, amount, to_card) ==
    [from_account_id |-> s, to_account_id |-> r, amount |-> Numeric2(amount),
     category |-> TransferCategory(r, to_card)]

\* a faulty variant: recipients found by card are not compared
SameCardByPhoneOnly(s, r, via) == r # None /\ r = s /\ via = "phone"

\* line 133: recipient_account and sender_account.id == recipient_account.id
SameCard(s, r, via) == r # None /\ r = s

\* a faulty variant: the same-card check placed after line 138, with no rollback
SameCardRejectedAfterDebit(req, s, via) ==
    /\ resp' = Asked(Via(Failure("make_transfer", 400, "same_card"), via), req)
    /\ accounts' = [accounts EXCEPT ![s].balance = Numeric2(accounts[s].balance - req.amount)]
    /\ UNCHANGED <<users, transactions, loans, schedules, deposits, insurances, now, sessions>>

\* lines 132-134
SameCardRejected(req, s, via) ==
    /\ resp' = Asked(Via(Failure("make_transfer", 400, "same_card"), via), req)
    /\ UNCHANGED <<db, now, sessions>>

make_transfer(u, from_id, to_phone, to_card, amount) ==
    LET s == SelectSender(accounts, u, from_id, amount)
        serr == SenderError(accounts, s, IF s = None THEN 0 ELSE accounts[s].balance, amount)
        rcp == SelectRecipient(users, accounts, to_phone, to_card)
        r == rcp.id
        req == [user |-> u, from_account_id |-> from_id, to_phone |-> to_phone, amount |-> amount]
    IN  IF serr.code # 200 THEN resp' = Asked(serr, req) /\ UNCHANGED <<db, now, sessions>>
        ELSE IF rcp.code # 200 THEN
            /\ resp' = Asked(Via(Failure("make_transfer", rcp.code, rcp.err), rcp.via), req)
            /\ UNCHANGED <<db, now, sessions>>
        ELSE IF SameCard(s, r, rcp.via) THEN
            SameCardRejected(req, s, rcp.via)
        ELSE \E db_fails \in BOOLEAN :
          IF db_fails THEN
            /\ resp' = Asked(Failure("make_transfer", 500, "db_error"), req)
            /\ UNCHANGED <<db, now, sessions>>
          ELSE
            /\ Len(transactions) < MaxTx
            /\ accounts' = TransferWrite(accounts, s, accounts[s].balance, r,
                                         IF r = None THEN 0 ELSE accounts[r].balance, amount)
            /\ transactions' = Logged(transactions, TransferRow(s, r, amount, to_card))
            /\ resp' = Asked(Via(Response("make_transfer", 200, "none", s, r, amount, None), rcp.via), req)
            /\ UNCHANGED <<users, loans, schedules, deposits, insurances, now, sessions>>

(***************************************************************************)
(* make_transfer as it runs beside other requests.  Every request has a    *)
(* database session of its own (Depends(get_db)); the handler gives way at *)
(* each await, so the code between two awaits is one step.  A session      *)
(* keeps the rows it has loaded (the identity map): a later query that     *)
(* returns a loaded row does not refresh it, and the flush at commit       *)
(* writes back the values computed from what was loaded.                   *)
(***************************************************************************)
\* lines 63-71: the accounts the sender queries load into the session
SenderQueryLoads(accs, u, from_id) ==
    LET explicit == {i \in DOMAIN accs : from_id # None /\ i = from_id /\ accs[i].user_id = u}
    IN  IF explicit # {} THEN explicit
        ELSE {i \in DOMAIN accs : accs[i].user_id = u /\ ~accs[i].is_blocked}

DropSession(k) == [i \in 1..(Len(sessions) - 1) |-> IF i < k THEN sessions[i] ELSE sessions[i + 1]]

\* lines 59-88, up to the await of line 108 or 129
begin_transfer(u, from_id, to_phone, to_card, amount) ==
    LET s == SelectSender(accounts, u, from_id, amount)
        serr == SenderError(accounts, s, IF s = None THEN 0 ELSE accounts[s].balance, amount)
    IN  /\ Len(sessions) < MaxSessions
        /\ IF serr.code # 200 THEN resp' = serr /\ UNCHANGED <<db, now, sessions>>
           ELSE /\ sessions' = Append(sessions,
                      [op |-> "make_transfer", pc |-> "recipient", to_phone |-> to_phone,
                       to_card |-> to_card, amount |-> amount, s |-> s, r |-> None,
                       via |-> "none",
                       loaded |-> [i \in SenderQueryLoads(accounts, u, from_id) |-> accounts[i].balance]])
                /\ UNCHANGED <<db, now, resp>>

\* lines 90-134, up to the await of line 154
resolve_recipient(k) ==
    LET ss == sessions[k]
        rcp == SelectRecipient(users, accounts, ss.to_phone, ss.to_card)
    IN  /\ ss.op = "make_transfer" /\ ss.pc = "recipient"
        /\ IF rcp.code # 200 THEN
                /\ resp' = Via(Failure("make_transfer", rcp.code, rcp.err), rcp.via)
                /\ sessions' = DropSession(k)
           ELSE IF SameCard(ss.s, rcp.id, rcp.via) THEN
                /\ resp' = Via(Failure("make_transfer", 400, "same_card"), rcp.via)
                /\ sessions' = DropSession(k)
           ELSE /\ sessions' = [sessions EXCEPT ![k] =
                      [ss EXCEPT !.pc = "commit", !.r = rcp.id, !.via = rcp.via,
                                 !.loaded = IF rcp.id = None \/ rcp.id \in DOMAIN ss.loaded
                                            THEN ss.loaded
                                            ELSE [i \in DOMAIN ss.loaded \cup {rcp.id} |->
                                                    IF i \in DOMAIN ss.loaded THEN ss.loaded[i]
                                                    ELSE accounts[i].balance]]]
                /\ resp' = resp
        /\ UNCHANGED <<db, now>>

\* lines 136-159: the flush and the commit
commit_transfer(k) ==
    LET ss == sessions[k]
    IN  /\ ss.op = "make_transfer" /\ ss.pc = "commit"
        /\ sessions' = DropSession(k)
        /\ \E db_fails \in BOOLEAN :
            IF db_fails THEN
                /\ resp' = Failure("make_transfer", 500, "db_error")
                /\ UNCHANGED <<db, now>>
            ELSE
                /\ Len(transactions) < MaxTx
                /\ accounts' = TransferWrite(accounts, ss.s, ss.loaded[ss.s], ss.r,
                                             IF ss.r = None THEN 0 ELSE ss.loaded[ss.r], ss.amount)
                /\ transactions' = Logged(transactions, TransferRow(ss.s, ss.r, ss.amount, ss.to_card))
                /\ resp' = Via(Response("make_transfer", 200, "none", ss.s, ss.r, ss.amount, None), ss.via)
                /\ UNCHANGED <<users, loans, schedules, deposits, insurances, now>>

(***************************************************************************)
(* apply_loan (POST /loans/apply)                                          *)
(***************************************************************************)
DaysPerMonth == 30

RECURSIVE Pow(_, _)
Pow(b, n) == IF n = 0 THEN 1 ELSE b * Pow(b, n - 1)

\* lines 33-43: m_rate = rate / 12, as a fraction <<a, b>>
MonthlyRate(type) ==
    CASE type = "cash" -> <<1, 80>>                            \* 0.15 / 12
      [] type \in {"installment", "bellyred", "red"} -> <<0, 1>>
      [] type = "mortgage" -> <<7, 2400>>                      \* 0.035 / 12
      [] type = "auto" -> <<7, 1200>>                          \* 0.07 / 12
      [] OTHER -> <<1, 80>>

\* lines 48-57, as a fraction
MinIncomeRatio(type) ==
    CASE type = "cash" -> <<3, 10>>
      [] type = "installment" -> <<1, 5>>
      [] type \in {"bellyred", "red"} -> <<1, 4>>
      [] type = "mortgage" -> <<2, 5>>
      [] type = "auto" -> <<7, 20>>
      [] OTHER -> <<3, 10>>

\* lines 60-63, for term_months # 0: the payment as a fraction <<num, den>>
\* with den > 0.  amount * m / (1 - (1 + m)^(-n)) with m = a / b is
\* amount * a * (a + b)^n / (b * ((a + b)^n - b^n)).
Payment(amount, type, n) ==
    LET a == MonthlyRate(type)[1]
        b == MonthlyRate(type)[2]
        k == Abs(n)
    IN  IF a = 0 THEN (IF n > 0 THEN <<amount, n>> ELSE <<-amount, k>>)
        ELSE IF n > 0 THEN <<amount * a * Pow(a + b, k), b * (Pow(a + b, k) - Pow(b, k))>>
        ELSE <<-(amount * a * Pow(b, k)), b * (Pow(a + b, k) - Pow(b, k))>>

\* a fraction stored in a Numeric(_, 2) column
NumericFrac(f) ==
    IF f[1] >= 0 THEN ((2 * f[1] + CENT * f[2]) \div (2 * CENT * f[2])) * CENT
    ELSE -(((2 * (-f[1]) + CENT * f[2]) \div (2 * CENT * f[2])) * CENT)

\* a faulty variant: the ratio applied to the payment instead of the income
IncomeTooLowInverted(payment, income, type) ==
    payment[1] * MinIncomeRatio(type)[1] > income * MinIncomeRatio(type)[2] * payment[2]

\* line 66: float(payment) > req.income * ratio (the floating-point
\* arithmetic of lines 42-66 is taken as exact)
IncomeTooLow(payment, income, type) ==
    payment[1] * MinIncomeRatio(type)[2] > income * MinIncomeRatio(type)[1] * payment[2]

\* one currency unit (the amounts of a request are given in it)
TENGE == 100 * CENT

\* int(): towards zero
Trunc(num, den) == IF num >= 0 THEN num \div den ELSE -((-num) \div den)

\* line 69: int(float(payment) / ratio), in whole currency units
MinIncome(payment, type) ==
    Trunc(payment[1] * MinIncomeRatio(type)[2], payment[2] * MinIncomeRatio(type)[1] * TENGE)

\* lines 66-70
LowIncome(payment, type) ==
    [Failure("apply_loan", 400, "low_income") EXCEPT !.amount = MinIncome(payment, type)]

\* a faulty variant: the query without Account.is_blocked == False
FirstActiveAccountUnfiltered(accs, u) ==
    LET owned == {i \in DOMAIN accs : accs[i].user_id = u}
    IN  IF owned = {} THEN None ELSE Min(owned)

\* lines 82-84 (and the same query of the other handlers): the customer's
\* first account that is not blocked
FirstActiveAccount(accs, u) ==
    LET active == {i \in DOMAIN accs : accs[i].user_id = u /\ ~accs[i].is_blocked}
    IN  IF active = {} THEN None ELSE Min(active)

\* lines 91-99
LoanRow(u, amount, term, payment, type, t) ==
    [user_id |-> u, amount |-> Numeric2(amount), term_months |-> term,
     monthly_payment |-> NumericFrac(payment), created_at |-> t,
     is_active |-> TRUE, type |-> type]

\* lines 105-114
NewSchedule(loan_id, payment, term, curr) ==
    IF term < 1 THEN <<>>
    ELSE [i \in 1..term |->
            [loan_id |-> loan_id, due_date |-> curr + DaysPerMonth * i,
             amount |-> NumericFrac(payment), is_paid |-> FALSE]]

\* line 117
Credit(accs, a, amount) ==
    [accs EXCEPT ![a].balance = Numeric2(accs[a].balance + amount)]

\* a faulty variant: the credited account left out of the row
DisbursementRowUnbound(a, amount, type) ==
    [from_account_id |-> None, to_account_id |-> None, amount |-> Numeric2(amount),
     category |-> <<"loan_credit", type>>]

\* lines 129-136
DisbursementRow(a, amount, type) ==
    [from_account_id |-> None, to_account_id |-> a, amount |-> Numeric2(amount),
     category |-> <<"loan_credit", type>>]

apply_loan(u, amount, term, income, type, property_value, vehicle_price) ==
    IF term = 0 THEN
        \* line 61 or 63 divides by zero: an unhandled exception
        resp' = Failure("apply_loan", 500, "server_error") /\ UNCHANGED <<db, now, sessions>>
    ELSE LET payment == Payment(amount, type, term)
             acc == FirstActiveAccount(accounts, u)
             loan_id == Len(loans) + 1
    IN  IF IncomeTooLow(payment, income, type) THEN
            resp' = LowIncome(payment, type) /\ UNCHANGED <<db, now, sessions>>
        ELSE IF type = "mortgage" /\ (property_value = 0 \/ property_value < amount) THEN
            resp' = Failure("apply_loan", 400, "property_value") /\ UNCHANGED <<db, now, sessions>>
        ELSE IF type = "auto" /\ (vehicle_price = 0 \/ vehicle_price < amount) THEN
            resp' = Failure("apply_loan", 400, "vehicle_price") /\ UNCHANGED <<db, now, sessions>>
        ELSE IF acc = None THEN
            resp' = Failure("apply_loan", 400, "no_account") /\ UNCHANGED <<db, now, sessions>>
        ELSE \E outcome \in {"ok", "first_commit_fails", "second_commit_fails"}, t \in now..MaxNow :
            IF outcome = "first_commit_fails" THEN
                \* line 101 raises: rollback, nothing was committed
                resp' = Failure("apply_loan", 500, "db_error") /\ UNCHANGED <<db, now, sessions>>
            ELSE
                /\ Len(loans) < MaxLoans
                /\ now' = t
                /\ loans' = Append(loans, LoanRow(u, amount, term, payment, type, t))
                /\ IF outcome = "second_commit_fails" THEN
                        \* line 138 raises: rollback of what follows line 101
                        /\ resp' = Failure("apply_loan", 500, "db_error")
                        /\ UNCHANGED <<users, accounts, transactions, schedules, deposits,
                                       insurances, sessions>>
                   ELSE
                        /\ schedules' = schedules \o NewSchedule(loan_id, payment, term, t)
                        /\ accounts' = Credit(accounts, acc, amount)
                        /\ transactions' = Logged(transactions, DisbursementRow(acc, amount, type))
                        /\ resp' = Response("apply_loan", 200, "none", None, acc, amount, loan_id)
                        /\ UNCHANGED <<users, deposits, insurances, sessions>>

(***************************************************************************)
(* pay_loan_installment (POST /loans/{loan_id}/pay)                        *)
(***************************************************************************)
\* lines 240-246, 275-280
Unpaid(scheds, loan_id) ==
    {i \in DOMAIN scheds : scheds[i].loan_id = loan_id /\ ~scheds[i].is_paid}

\* a faulty variant: ORDER BY due_date DESC
NextPaymentLatest(scheds, loan_id) ==
    LET unpaid == Unpaid(scheds, loan_id)
    IN  IF unpaid = {} THEN None
        ELSE CHOOSE i \in unpaid : \A j \in unpaid :
                \/ scheds[i].due_date > scheds[j].due_date
                \/ scheds[i].due_date = scheds[j].due_date /\ i >= j

\* lines 240-246: ORDER BY due_date LIMIT 1
NextPayment(scheds, loan_id) ==
    LET unpaid == Unpaid(scheds, loan_id)
    IN  IF unpaid = {} THEN None
        ELSE CHOOSE i \in unpaid : \A j \in unpaid :
                \/ scheds[i].due_date < scheds[j].due_date
                \/ scheds[i].due_date = scheds[j].due_date /\ i <= j

\* line 261
Debit(accs, a, amount) ==
    [accs EXCEPT ![a].balance = Numeric2(accs[a].balance - amount)]

\* line 262
MarkPaid(scheds, i) == [scheds EXCEPT ![i].is_paid = TRUE]

\* a faulty variant: the loan stays active after its last installment
CloseIfPaidNever(lns, scheds, loan_id) == lns

\* lines 275-283
CloseIfPaid(lns, scheds, loan_id) ==
    IF Unpaid(scheds, loan_id) = {} THEN [lns EXCEPT ![loan_id].is_active = FALSE] ELSE lns

\* lines 265-271
RepaymentRow(a, amount, type) ==
    [from_account_id |-> a, to_account_id |-> None, amount |-> Numeric2(amount),
     category |-> <<"loan_repayment", type>>]

\* a faulty variant: a balance equal to the amount is refused as well
CannotPayUnlessMore(accs, acc, amount) == acc = None \/ accs[acc].balance <= amount

\* line 256: not acc or acc.balance < next_payment.amount
CannotPay(accs, acc, amount) == acc = None \/ accs[acc].balance < amount

\* an answer to the request of customer u about loan loan_id
InstallmentRefused(u, loan_id, code, err) ==
    /\ resp' = By(About(Failure("pay_loan_installment", code, err), loan_id), u)
    /\ UNCHANGED <<db, now, sessions>>

pay_loan_installment(u, loan_id) ==
    IF ~(loan_id \in DOMAIN loans /\ loans[loan_id].user_id = u /\ loans[loan_id].is_active) THEN
        InstallmentRefused(u, loan_id, 404, "loan_not_found")
    ELSE LET next_payment == NextPayment(schedules, loan_id)
             acc == FirstActiveAccount(accounts, u)
    IN  IF next_payment = None THEN
            InstallmentRefused(u, loan_id, 400, "all_paid")
        ELSE IF CannotPay(accounts, acc, schedules[next_payment].amount) THEN
            InstallmentRefused(u, loan_id, 400, "insufficient")
        ELSE \E db_fails \in BOOLEAN :
          IF db_fails THEN
            InstallmentRefused(u, loan_id, 500, "db_error")
          ELSE
            /\ accounts' = Debit(accounts, acc, schedules[next_payment].amount)
            /\ schedules' = MarkPaid(schedules, next_payment)
            /\ transactions' = Logged(transactions,
                    RepaymentRow(acc, schedules[next_payment].amount, loans[loan_id].type))
            /\ loans' = CloseIfPaid(loans, schedules', loan_id)
            /\ resp' = By(Response("pay_loan_installment", 200, "none", acc, None,
                                   schedules[next_payment].amount, next_payment), u)
            /\ UNCHANGED <<users, deposits, insurances, now, sessions>>

(***************************************************************************)
(* Requests and specifications.                                            *)
(***************************************************************************)
\* LoanRequest: amount and income are floats, term_months any int
LoanAmounts == {-CENT, 0, CENT}
LoanTerms == {-1} \cup (0..MaxTerm)
Incomes == {0, 10 * CENT}
\* <<type, term_months, property_value>>
LoanProducts ==
    {<<ty, n, 0>> : ty \in {"cash", "installment"}, n \in LoanTerms}
        \cup {<<"mortgage", 1, 0>>, <<"mortgage", 1, CENT>>}

ApplyLoan ==
    /\ \/ \E u \in {1, 2}, amount \in LoanAmounts, income \in Incomes, p \in LoanProducts :
           apply_loan(u, amount, p[2], income, p[1], p[3], 0)
       \/ apply_loan(3, CENT, 1, 10 * CENT, "cash", 0, 0)
    /\ UNCHANGED <<phone, request, amortization>>

PayLoanInstallment ==
    /\ \E u \in Customers, loan_id \in 1..MaxLoans : pay_loan_installment(u, loan_id)
    /\ UNCHANGED <<phone, request, amortization>>

MakeTransfer ==
    /\ \E q \in TransferRequests : make_transfer(q[1], q[2], q[3][1], q[3][2], q[4])
    /\ UNCHANGED <<phone, request, amortization>>

NextTransfers == MakeTransfer

SpecTransfers == Init /\ [][NextTransfers]_vars

NextLoans == ApplyLoan \/ PayLoanInstallment

SpecLoans == Init /\ [][NextLoans]_vars

\* Loan applications in whole currency units, the application kept beside
\* the answer: <<type, amount, term_months, income>>
ScoredRequests ==
    {<<ty, TENGE, n, income>> : ty \in {"cash", "installment"}, n \in {1, 2},
                                income \in {0, 2 * TENGE, 3 * TENGE, 5 * TENGE}}
        \cup {<<"bellyred", 100000 * TENGE, n, income>> :
                    n \in {3, 4}, income \in {99999 * TENGE, 100000 * TENGE, 133334 * TENGE}}
        \cup {<<"installment", TENGE, 3, income>> : income \in {TENGE, 2 * TENGE}}
        \cup {<<"installment", TENGE, -1, 0>>, <<"red", 100 * TENGE, 3, 134 * TENGE>>}

ScoreLoan ==
    /\ \E q \in ScoredRequests :
          /\ apply_loan(1, q[2], q[3], q[4], q[1], 0, 0)
          /\ request' = [amount |-> q[2], term_months |-> q[3], income |-> q[4], type |-> q[1]]
    /\ UNCHANGED <<phone, amortization>>

NextScoring == ScoreLoan

SpecScoring == Init /\ [][NextScoring]_vars

(***************************************************************************)
(* The annuity payment of apply_loan (lines 42-63) for amounts and terms   *)
(* whose powers do not fit a machine word, and a loan paid off with it     *)
(* month by month.  A natural number is the sequence of its digits in base *)
(* 1000, the least significant first, zero the empty sequence.             *)
(***************************************************************************)
BASE == 1000

RECURSIVE BigOf(_)
BigOf(n) == IF n = 0 THEN <<>> ELSE <<n % BASE>> \o BigOf(n \div BASE)

RECURSIVE MulCarry(_, _, _)
MulCarry(x, m, c) ==
    IF x = <<>> THEN BigOf(c)
    ELSE <<(Head(x) * m + c) % BASE>> \o MulCarry(Tail(x), m, (Head(x) * m + c) \div BASE)

\* x * m for 0 <= m < 2^21
BigTimes(x, m) == IF m = 0 THEN <<>> ELSE MulCarry(x, m, 0)

RECURSIVE AddCarry(_, _, _)
AddCarry(x, y, c) ==
    IF x = <<>> /\ y = <<>> THEN BigOf(c)
    ELSE LET t == (IF x = <<>> THEN 0 ELSE Head(x)) + (IF y = <<>> THEN 0 ELSE Head(y)) + c
         IN  <<t % BASE>> \o AddCarry(IF x = <<>> THEN <<>> ELSE Tail(x),
                                      IF y = <<>> THEN <<>> ELSE Tail(y), t \div BASE)

BigPlus(x, y) == AddCarry(x, y, 0)

RECURSIVE BigNormal(_)
BigNormal(x) ==
    IF x = <<>> THEN <<>>
    ELSE IF x[Len(x)] = 0 THEN BigNormal(SubSeq(x, 1, Len(x) - 1)) ELSE x

RECURSIVE SubBorrow(_, _, _)
SubBorrow(x, y, c) ==
    IF x = <<>> THEN <<>>
    ELSE LET t == Head(x) - (IF y = <<>> THEN 0 ELSE Head(y)) - c
         IN  <<(t + BASE) % BASE>> \o SubBorrow(Tail(x), IF y = <<>> THEN <<>> ELSE Tail(y),
                                                IF t < 0 THEN 1 ELSE 0)

\* x - y for x >= y
BigMinus(x, y) == BigNormal(SubBorrow(x, y, 0))

RECURSIVE BigLeq(_, _)
BigLeq(x, y) ==
    IF Len(x) # Len(y) THEN Len(x) < Len(y)
    ELSE IF x = <<>> THEN TRUE
    ELSE IF x[Len(x)] # y[Len(y)] THEN x[Len(x)] < y[Len(y)]
    ELSE BigLeq(SubSeq(x, 1, Len(x) - 1), SubSeq(y, 1, Len(y) - 1))

RECURSIVE BigMul(_, _)
BigMul(x, y) ==
    IF x = <<>> \/ y = <<>> THEN <<>>
    ELSE LET rest == BigMul(x, Tail(y))
         IN  BigPlus(BigTimes(x, Head(y)), IF rest = <<>> THEN <<>> ELSE <<0>> \o rest)

RECURSIVE BigPow(_, _)
BigPow(b, n) == IF n = 0 THEN <<1>> ELSE BigTimes(BigPow(b, n - 1), b)

\* the largest q in lo..hi with q * y <= x, given lo * y <= x
RECURSIVE Quotient(_, _, _, _)
Quotient(x, y, lo, hi) ==
    IF lo = hi THEN lo
    ELSE LET mid == (lo + hi + 1) \div 2
         IN  IF BigLeq(BigTimes(y, mid), x) THEN Quotient(x, y, mid, hi)
             ELSE Quotient(x, y, lo, mid - 1)

MaxQuotient == 2097151

\* x / y rounded to the cent, half away from zero, for x >= 0 and y > 0
BigNumeric2(x, y) ==
    Quotient(BigPlus(BigTimes(x, 2), BigTimes(y, CENT)), BigTimes(y, 2 * CENT), 0, MaxQuotient) * CENT

\* a faulty variant: simple interest, amount / n + amount * m_rate
AnnuityPaymentFlat(amount, type, n) ==
    LET a == MonthlyRate(type)[1]
        b == MonthlyRate(type)[2]
    IN  BigNumeric2(BigMul(BigOf(amount), BigOf(b + a * n)), BigOf(b * n))

\* lines 60-61 and the Numeric(10, 2) column of line 95, for n >= 1 and a
\* rate above zero: amount * m / (1 - (1 + m)^(-n)) with m = a / b is
\* amount * a * (a + b)^n / (b * ((a + b)^n - b^n)), rounded to the cent
AnnuityPayment(amount, type, n) ==
    LET a == MonthlyRate(type)[1]
        b == MonthlyRate(type)[2]
        grown == BigPow(a + b, n)
        num == BigMul(BigOf(amount * a), grown)
        den == BigTimes(BigMinus(grown, BigPow(b, n)), b)
    IN  BigNumeric2(num, den)

\* <<amount, type, term_months>>
AnnuityLoans ==
    {<<120000 * TENGE, "cash", 12>>}
        \cup {<<amount, ty, n>> : amount \in {1000 * TENGE, 15000 * TENGE},
                                  ty \in {"cash", "mortgage", "auto"}, n \in {1, 2, 6, 12}}
        \cup {<<CENT, ty, n>> : ty \in {"cash", "mortgage", "auto"}, n \in {1, 2}}

InitAnnuity ==
    /\ users = <<[phone |-> Phone1], [phone |-> Phone2], [phone |-> Phone3]>>
    /\ accounts = <<>>
    /\ transactions = <<>>
    /\ loans = <<>>
    /\ schedules = <<>>
    /\ deposits = <<>>
    /\ insurances = <<>>
    /\ now = 0
    /\ resp = Failure("none", 0, "none")
    /\ sessions = <<>>
    /\ phone = [to_phone |-> <<>>, clean_phone |-> <<>>, pc |-> "none", resent |-> FALSE]
    /\ request = NoRequest
    /\ \E q \in AnnuityLoans :
         amortization = [amount |-> q[1], type |-> q[2], term_months |-> q[3], payment |-> None,
                         month |-> 0, owed |-> BigOf(q[1]), paid |-> <<>>, scale |-> <<1>>]

\* lines 60-61
ComputePayment ==
    /\ amortization.payment = None
    /\ amortization' = [amortization EXCEPT
            !.payment = AnnuityPayment(amortization.amount, amortization.type,
                                       amortization.term_months)]
    /\ UNCHANGED <<db, now, resp, sessions, phone, request>>

\* one month: interest of m_rate on what is outstanding, then one payment.
\* The outstanding balance is (owed - paid) / scale.
AccrueMonth ==
    LET a == MonthlyRate(amortization.type)[1]
        b == MonthlyRate(amortization.type)[2]
    IN  /\ amortization.payment # None
        /\ amortization.month < amortization.term_months
        /\ amortization' = [amortization EXCEPT
                !.month = @ + 1,
                !.scale = BigTimes(@, b),
                !.owed = BigTimes(@, a + b),
                !.paid = BigPlus(BigTimes(@, a + b),
                                 BigMul(BigTimes(amortization.scale, b),
                                        BigOf(amortization.payment)))]
        /\ UNCHANGED <<db, now, resp, sessions, phone, request>>

NextAnnuity == ComputePayment \/ AccrueMonth

SpecAnnuity == InitAnnuity /\ [][NextAnnuity]_vars

\* Requests that run beside each other: whole-cent amounts only, so that a
\* balance that disagrees with the log can only come from the interleaving.
ConcurrentTransfers ==
    {<<u, None, d, CENT>> : u \in {1, 2},
        d \in { <<<<"7","0","1","0","0","0","0","0","0","2">>, <<>>>>,
                <<<<>>, Card2>>,
                <<<<>>, <<"9","9","9","9","1","2","3","4">>>> }}

BeginTransfer ==
    /\ \E q \in ConcurrentTransfers : begin_transfer(q[1], q[2], q[3][1], q[3][2], q[4])
    /\ UNCHANGED <<phone, request, amortization>>

ResolveRecipient ==
    /\ \E k \in DOMAIN sessions : resolve_recipient(k)
    /\ UNCHANGED <<phone, request, amortization>>

CommitTransfer ==
    /\ \E k \in DOMAIN sessions : commit_transfer(k)
    /\ UNCHANGED <<phone, request, amortization>>

NextConc == BeginTransfer \/ ResolveRecipient \/ CommitTransfer

SpecConc == Init /\ [][NextConc]_vars

(***************************************************************************)
(* create_deposit (POST /deposits/create) and close_deposit                *)
(* (POST /deposits/{deposit_id}/close)                                     *)
(***************************************************************************)
MaxDeposits == 2    \* rows of the deposits table

\* lines 60-69
DepositRow(u, amount, term, type) ==
    [user_id |-> u, amount |-> Numeric2(amount), term_months |-> term, type |-> type,
     is_active |-> TRUE]

\* lines 73-79
DepositOpenRow(a, amount, type) ==
    [from_account_id |-> a, to_account_id |-> None, amount |-> Numeric2(amount),
     category |-> <<"deposit_open", type>>]

create_deposit(u, amount, term, type) ==
    LET acc == FirstActiveAccount(accounts, u)
    IN  IF amount <= 0 THEN
            resp' = Failure("create_deposit", 400, "invalid_amount") /\ UNCHANGED <<db, now, sessions>>
        ELSE IF acc = None THEN
            resp' = Failure("create_deposit", 400, "no_account") /\ UNCHANGED <<db, now, sessions>>
        ELSE IF accounts[acc].balance < amount THEN
            resp' = Failure("create_deposit", 400, "insufficient") /\ UNCHANGED <<db, now, sessions>>
        ELSE \E db_fails \in BOOLEAN :
          IF db_fails THEN
            resp' = Failure("create_deposit", 500, "db_error") /\ UNCHANGED <<db, now, sessions>>
          ELSE
            /\ Len(deposits) < MaxDeposits
            /\ accounts' = Debit(accounts, acc, amount)
            /\ deposits' = Append(deposits, DepositRow(u, amount, term, type))
            /\ transactions' = Logged(transactions, DepositOpenRow(acc, amount, type))
            /\ resp' = Response("create_deposit", 200, "none", acc, None, amount, Len(deposits) + 1)
            /\ UNCHANGED <<users, loans, schedules, insurances, now, sessions>>

\* a faulty variant: the query without Deposit.user_id == current_user.id
ActiveDepositOfAnyone(deps, u, deposit_id) ==
    /\ deposit_id \in DOMAIN deps
    /\ deps[deposit_id].is_active

\* lines 140-144: the deposit the request may close
OwnActiveDeposit(deps, u, deposit_id) ==
    /\ deposit_id \in DOMAIN deps
    /\ deps[deposit_id].user_id = u
    /\ deps[deposit_id].is_active

\* lines 148-150: the customer's first account, blocked or not
FirstAccount(accs, u) ==
    LET owned == {i \in DOMAIN accs : accs[i].user_id = u}
    IN  IF owned = {} THEN None ELSE Min(owned)

\* a faulty variant: the accrued interest is paid out with the principal
ReturnedWithInterest(dep) == dep.amount + CENT

\* line 157: what an early closure pays back
Returned(dep) == dep.amount

\* lines 160-166
DepositCloseRow(a, amount) ==
    [from_account_id |-> None, to_account_id |-> a, amount |-> Numeric2(amount),
     category |-> <<"deposit_close">>]

\* an answer to the request of customer u about deposit deposit_id
CloseRefused(u, deposit_id, code, err) ==
    /\ resp' = By(About(Failure("close_deposit", code, err), deposit_id), u)
    /\ UNCHANGED <<db, now, sessions>>

close_deposit(u, deposit_id) ==
    LET acc == FirstAccount(accounts, u)
    IN  IF ~OwnActiveDeposit(deposits, u, deposit_id) THEN
            CloseRefused(u, deposit_id, 404, "deposit_not_found")
        ELSE IF acc = None THEN
            CloseRefused(u, deposit_id, 400, "no_account")
        ELSE \E db_fails \in BOOLEAN :
          IF db_fails THEN
            CloseRefused(u, deposit_id, 500, "db_error")
          ELSE
            /\ accounts' = Credit(accounts, acc, Returned(deposits[deposit_id]))
            /\ deposits' = [deposits EXCEPT ![deposit_id].is_active = FALSE]
            /\ transactions' = Logged(transactions,
                    DepositCloseRow(acc, Returned(deposits[deposit_id])))
            /\ resp' = By(Response("close_deposit", 200, "none", None, acc,
                                   deposits[deposit_id].amount, deposit_id), u)
            /\ UNCHANGED <<users, loans, schedules, insurances, now, sessions>>

\* DepositRequest: amount is a float, term_months any int
DepositAmounts == {-CENT, 0, CENT \div 2, CENT}
DepositTypes == {"standard", "vip"}

CreateDeposit ==
    /\ \E u \in Customers, amount \in DepositAmounts, type \in DepositTypes :
           create_deposit(u, amount, 1, type)
    /\ UNCHANGED <<phone, request, amortization>>

CloseDeposit ==
    /\ \E u \in Customers, deposit_id \in 1..MaxDeposits : close_deposit(u, deposit_id)
    /\ UNCHANGED <<phone, request, amortization>>

NextDeposits == CreateDeposit \/ CloseDeposit

SpecDeposits == Init /\ [][NextDeposits]_vars

(***************************************************************************)
(* close_deposit as it runs beside other requests: one step for the code   *)
(* between two awaits.                                                     *)
(***************************************************************************)
\* lines 140-145, up to the await of line 149
begin_close(u, deposit_id) ==
    /\ Len(sessions) < MaxSessions
    /\ IF ~OwnActiveDeposit(deposits, u, deposit_id) THEN
            /\ resp' = About(Failure("close_deposit", 404, "deposit_not_found"), deposit_id)
            /\ UNCHANGED <<db, now, sessions>>
       ELSE /\ sessions' = Append(sessions,
                  [op |-> "close_deposit", pc |-> "account", u |-> u, deposit |-> deposit_id,
                   returned |-> Returned(deposits[deposit_id]), acc |-> None, balance |-> 0])
            /\ UNCHANGED <<db, now, resp>>

\* lines 147-153, up to the await of line 169
load_close_account(k) ==
    LET ss == sessions[k]
        acc == FirstAccount(accounts, ss.u)
    IN  /\ ss.op = "close_deposit" /\ ss.pc = "account"
        /\ IF acc = None THEN
                /\ resp' = Failure("close_deposit", 400, "no_account")
                /\ sessions' = DropSession(k)
           ELSE /\ sessions' = [sessions EXCEPT ![k] =
                      [ss EXCEPT !.pc = "commit", !.acc = acc, !.balance = accounts[acc].balance]]
                /\ resp' = resp
        /\ UNCHANGED <<db, now>>

\* lines 155-179: the flush and the commit
commit_close(k) ==
    LET ss == sessions[k]
    IN  /\ ss.op = "close_deposit" /\ ss.pc = "commit"
        /\ sessions' = DropSession(k)
        /\ \E db_fails \in BOOLEAN :
            IF db_fails THEN
                /\ resp' = Failure("close_deposit", 500, "db_error")
                /\ UNCHANGED <<db, now>>
            ELSE
                /\ accounts' = [accounts EXCEPT ![ss.acc].balance = Numeric2(ss.balance + ss.returned)]
                /\ deposits' = [deposits EXCEPT ![ss.deposit].is_active = FALSE]
                /\ transactions' = Logged(transactions, DepositCloseRow(ss.acc, ss.returned))
                /\ resp' = Response("close_deposit", 200, "none", None, ss.acc, ss.returned, ss.deposit)
                /\ UNCHANGED <<users, loans, schedules, insurances, now>>

\* whole-cent deposits of customers 1 and 2
OpenDeposit ==
    /\ \E u \in {1, 2} : create_deposit(u, CENT, 1, "standard")
    /\ UNCHANGED <<phone, request, amortization>>

BeginClose ==
    /\ \E u \in {1, 2}, deposit_id \in 1..MaxDeposits : begin_close(u, deposit_id)
    /\ UNCHANGED <<phone, request, amortization>>

LoadCloseAccount ==
    /\ \E k \in DOMAIN sessions : load_close_account(k)
    /\ UNCHANGED <<phone, request, amortization>>

CommitClose ==
    /\ \E k \in DOMAIN sessions : commit_close(k)
    /\ UNCHANGED <<phone, request, amortization>>

NextConcDeposits == OpenDeposit \/ BeginClose \/ LoadCloseAccount \/ CommitClose

SpecConcDeposits == Init /\ [][NextConcDeposits]_vars

(***************************************************************************)
(* pay_loan_installment as it runs beside other requests.  The three       *)
(* queries of lines 231-257 only read and are taken together; the writes   *)
(* of lines 259-283 reach the database in one transaction, at the commit.  *)
(***************************************************************************)
\* lines 231-257, up to the await of line 279
begin_installment(u, loan_id) ==
    /\ Len(sessions) < MaxSessions
    /\ IF ~(loan_id \in DOMAIN loans /\ loans[loan_id].user_id = u /\ loans[loan_id].is_active) THEN
            resp' = Failure("pay_loan_installment", 404, "loan_not_found") /\ UNCHANGED <<db, now, sessions>>
       ELSE LET next_payment == NextPayment(schedules, loan_id)
                acc == FirstActiveAccount(accounts, u)
       IN  IF next_payment = None THEN
               resp' = Failure("pay_loan_installment", 400, "all_paid") /\ UNCHANGED <<db, now, sessions>>
           ELSE IF acc = None \/ accounts[acc].balance < schedules[next_payment].amount THEN
               resp' = Failure("pay_loan_installment", 400, "insufficient") /\ UNCHANGED <<db, now, sessions>>
           ELSE /\ sessions' = Append(sessions,
                      [op |-> "pay_loan_installment", pc |-> "commit", loan |-> loan_id,
                       next_payment |-> next_payment, amount |-> schedules[next_payment].amount,
                       acc |-> acc, balance |-> accounts[acc].balance])
                /\ UNCHANGED <<db, now, resp>>

\* lines 259-296: the flush before the query of line 279 and the commit
commit_installment(k) ==
    LET ss == sessions[k]
    IN  /\ ss.op = "pay_loan_installment" /\ ss.pc = "commit"
        /\ sessions' = DropSession(k)
        /\ \E db_fails \in BOOLEAN :
            IF db_fails THEN
                /\ resp' = Failure("pay_loan_installment", 500, "db_error")
                /\ UNCHANGED <<db, now>>
            ELSE
                /\ accounts' = [accounts EXCEPT ![ss.acc].balance = Numeric2(ss.balance - ss.amount)]
                /\ schedules' = MarkPaid(schedules, ss.next_payment)
                /\ transactions' = Logged(transactions,
                        RepaymentRow(ss.acc, ss.amount, loans[ss.loan].type))
                /\ loans' = CloseIfPaid(loans, schedules', ss.loan)
                /\ resp' = Response("pay_loan_installment", 200, "none", ss.acc, None,
                                    ss.amount, ss.next_payment)
                /\ UNCHANGED <<users, deposits, insurances, now>>

\* zero-rate loans of customer 1 in whole cents
OriginateLoan ==
    /\ \E term \in 1..MaxTerm : apply_loan(1, term * CENT, term, 10 * CENT, "installment", 0, 0)
    /\ UNCHANGED <<phone, request, amortization>>

BeginInstallment ==
    /\ \E u \in {1, 2}, loan_id \in 1..MaxLoans : begin_installment(u, loan_id)
    /\ UNCHANGED <<phone, request, amortization>>

CommitInstallment ==
    /\ \E k \in DOMAIN sessions : commit_installment(k)
    /\ UNCHANGED <<phone, request, amortization>>

NextConcLoans == OriginateLoan \/ BeginInstallment \/ CommitInstallment

SpecConcLoans == Init /\ [][NextConcLoans]_vars

(***************************************************************************)
(* The phone normalization of make_transfer (lines 93-102) on its own: a   *)
(* to_phone is received, normalized, and the normalized number is sent     *)
(* again as the to_phone of a later request.                               *)
(***************************************************************************)
\* ten-digit national numbers
Nationals ==
    {<<a, b, "0", "1", "0", "0", "0", "0", "0", c>> :
        a \in {"7", "8", "0"}, b \in {"7", "8", "0"}, c \in {"1", "2"}}

PhoneStyles == {"canonical", "seven", "plus", "national", "pretty", "spaced"}

\* the ways a client writes the number n
Variant(n, style) ==
    CASE style = "canonical" -> <<"8">> \o n
      [] style = "seven" -> <<"7">> \o n
      [] style = "plus" -> <<"+", "7">> \o n
      [] style = "national" -> n
      [] style = "pretty" ->
            <<"+", "7", " ", "(">> \o SubSeq(n, 1, 3) \o <<")", " ">> \o SubSeq(n, 4, 6)
                \o <<"-">> \o SubSeq(n, 7, 8) \o <<"-">> \o SubSeq(n, 9, 10)
      [] style = "spaced" -> <<"8", " ">> \o SubSeq(n, 1, 3) \o <<" ">> \o SubSeq(n, 4, 10)

\* strings that are no phone number
OtherPhones ==
    { <<"+">>, <<"1", "2", "3">>, <<"7", "7", "0", "1", "0", "0", "0", "0", "0", "0", "1", "1">>,
      <<"(", "7", "0", "1", ")">> }

InitPhone ==
    /\ users = <<[phone |-> Phone1], [phone |-> Phone2], [phone |-> Phone3]>>
    /\ accounts = <<>>
    /\ transactions = <<>>
    /\ loans = <<>>
    /\ schedules = <<>>
    /\ deposits = <<>>
    /\ insurances = <<>>
    /\ now = 0
    /\ resp = Failure("none", 0, "none")
    /\ sessions = <<>>
    /\ \E p \in {Variant(n, st) : n \in Nationals, st \in PhoneStyles} \cup OtherPhones :
         phone = [to_phone |-> p, clean_phone |-> <<>>, pc |-> "received", resent |-> FALSE]
    /\ request = NoRequest
    /\ amortization = NoAmortization

\* lines 93-102
NormalizePhone ==
    /\ phone.pc = "received"
    /\ phone' = [phone EXCEPT !.clean_phone = CleanPhone(phone.to_phone), !.pc = "cleaned"]
    /\ UNCHANGED <<db, now, resp, sessions, request, amortization>>

\* the normalized number comes back as the to_phone of another request
ResendPhone ==
    /\ phone.pc = "cleaned" /\ ~phone.resent
    /\ phone' = [to_phone |-> phone.clean_phone, clean_phone |-> <<>>, pc |-> "received",
                 resent |-> TRUE]
    /\ UNCHANGED <<db, now, resp, sessions, request, amortization>>

NextPhone == NormalizePhone \/ ResendPhone

SpecPhone == InitPhone /\ [][NextPhone]_vars

(***************************************************************************)
(* Transfers among customers whose accounts may be blocked: customer 2     *)
(* owns accounts 3 and 4, each blocked or not, and both hold money.        *)
(***************************************************************************)
Card4 == <<"4","4","0","0","0","4">>

\* the balances the accounts open with when customer 2 owns two accounts
BlockedBalance(a) == IF a = 2 THEN 0 ELSE CENT

InitBlocked ==
    /\ users = <<[phone |-> Phone1], [phone |-> Phone2], [phone |-> Phone3]>>
    /\ \E b3 \in BOOLEAN, b4 \in BOOLEAN :
         accounts =
           << [user_id |-> 1, card_number |-> Card1, balance |-> BlockedBalance(1), is_blocked |-> FALSE],
              [user_id |-> 1, card_number |-> Card2, balance |-> BlockedBalance(2), is_blocked |-> FALSE],
              [user_id |-> 2, card_number |-> Card3, balance |-> BlockedBalance(3), is_blocked |-> b3],
              [user_id |-> 2, card_number |-> Card4, balance |-> BlockedBalance(4), is_blocked |-> b4] >>
    /\ transactions = <<>>
    /\ loans = <<>>
    /\ schedules = <<>>
    /\ deposits = <<>>
    /\ insurances = <<>>
    /\ now = 0
    /\ resp = Failure("none", 0, "none")
    /\ sessions = <<>>
    /\ phone = [to_phone |-> <<>>, clean_phone |-> <<>>, pc |-> "none", resent |-> FALSE]
    /\ request = NoRequest
    /\ amortization = NoAmortization

\* whole-cent requests addressed by phone or by card
PhoneTransfers ==
    {<<u, f, <<p, <<>>>>, CENT>> : u \in Customers, f \in {None, 3, 4},
        p \in { <<"7","0","1","0","0","0","0","0","0","1">>,
                <<"+","7"," ","(","7","0","1",")"," ","0","0","0","-","0","0","-","0","2">>,
                Phone3 }}
      \cup {<<1, None, <<<<>>, c>>, CENT>> : c \in {Card2, Card3, Card4}}

TransferByPhone ==
    /\ \E q \in PhoneTransfers : make_transfer(q[1], q[2], q[3][1], q[3][2], q[4])
    /\ UNCHANGED <<phone, request, amortization>>

NextBlocked == TransferByPhone

SpecBlocked == InitBlocked /\ [][NextBlocked]_vars

(***************************************************************************)
(* pay_service (POST /services/pay)                                        *)
(***************************************************************************)
\* a faulty variant: a counterparty of its own for every name
ServiceInfoPerName(service_name) ==
    CASE service_name = "mobile" -> [phone |-> <<"srv_mobile">>, card |-> <<"MOB_001">>]
      [] service_name = "utilities" -> [phone |-> <<"srv_util">>, card |-> <<"UTL_001">>]
      [] OTHER -> [phone |-> <<"srv_other", service_name>>, card |-> <<"OTH_001", service_name>>]

\* lines 21-43 and 46: the counterparty of a service; a name that is not
\* configured goes to the default entry
ServiceInfo(service_name) ==
    CASE service_name = "mobile" -> [phone |-> <<"srv_mobile">>, card |-> <<"MOB_001">>]
      [] service_name = "utilities" -> [phone |-> <<"srv_util">>, card |-> <<"UTL_001">>]
      [] OTHER -> [phone |-> <<"srv_other">>, card |-> <<"OTH_001">>]

\* lines 48-50
ServiceUser(usrs, service_name) ==
    LET found == {u \in DOMAIN usrs : usrs[u].phone = ServiceInfo(service_name).phone}
    IN  IF found = {} THEN None ELSE Min(found)

\* lines 110-116
ServiceRow(a, b, amount, service_name) ==
    [from_account_id |-> a, to_account_id |-> b, amount |-> Numeric2(amount),
     category |-> <<"service_payment", service_name>>]

pay_service(u, service_name, amount) ==
    LET user_acc == FirstActiveAccount(accounts, u)
        info == ServiceInfo(service_name)
        \* get_or_create_service_account, lines 45-68
        found == ServiceUser(users, service_name)
        user == IF found = None THEN Len(users) + 1 ELSE found
        users1 == IF found = None THEN Append(users, [phone |-> info.phone]) ELSE users
        owned == IF found = None THEN None ELSE FirstAccount(accounts, found)
        service_acc == IF owned = None THEN Len(accounts) + 1 ELSE owned
        accounts1 == IF owned = None
                     THEN Append(accounts, [user_id |-> user, card_number |-> info.card,
                                            balance |-> 0, is_blocked |-> FALSE])
                     ELSE accounts
    IN  IF user_acc = None THEN
            resp' = Failure("pay_service", 400, "no_account") /\ UNCHANGED <<db, now, sessions>>
        ELSE IF accounts[user_acc].balance < amount THEN
            resp' = Failure("pay_service", 400, "insufficient") /\ UNCHANGED <<db, now, sessions>>
        ELSE \E outcome \in {"ok", "user_commit_fails", "account_commit_fails", "payment_commit_fails"} :
            CASE outcome = "user_commit_fails" ->
                    \* line 55 raises
                    /\ found = None
                    /\ resp' = Failure("pay_service", 500, "server_error")
                    /\ UNCHANGED <<db, now, sessions>>
              [] outcome = "account_commit_fails" ->
                    \* line 65 raises, after the commit of line 55
                    /\ owned = None
                    /\ users' = users1
                    /\ resp' = Failure("pay_service", 500, "server_error")
                    /\ UNCHANGED <<accounts, transactions, loans, schedules, deposits, insurances,
                                   now, sessions>>
              [] outcome = "payment_commit_fails" ->
                    \* line 118 raises: rollback of what follows line 65
                    /\ users' = users1
                    /\ accounts' = accounts1
                    /\ resp' = Failure("pay_service", 500, "db_error")
                    /\ UNCHANGED <<transactions, loans, schedules, deposits, insurances, now, sessions>>
              [] outcome = "ok" ->
                    /\ Len(transactions) < MaxTx
                    /\ users' = users1
                    /\ accounts' = TransferWrite(accounts1, user_acc, accounts[user_acc].balance,
                                                 service_acc, accounts1[service_acc].balance, amount)
                    /\ transactions' = Logged(transactions,
                            ServiceRow(user_acc, service_acc, amount, service_name))
                    /\ resp' = Response("pay_service", 200, "none", user_acc, service_acc, amount, None)
                    /\ UNCHANGED <<loans, schedules, deposits, insurances, now, sessions>>

(***************************************************************************)
(* get_or_create_service_account (lines 45-68) as it runs beside other     *)
(* calls: one step for the code between two awaits.  The unique indexes of *)
(* users.phone and accounts.card_number are checked when a row is          *)
(* committed.                                                              *)
(***************************************************************************)
\* a faulty variant: users.phone without unique=True
PhoneTakenNever(usrs, phone_number) == FALSE

\* models.py line 24: phone = Column(String, unique=True, ...)
PhoneTaken(usrs, phone_number) == \E u \in DOMAIN usrs : usrs[u].phone = phone_number

\* models.py line 39: card_number = Column(String(30), unique=True, ...)
CardTaken(accs, card_number) == \E a \in DOMAIN accs : accs[a].card_number = card_number

\* what get_or_create_service_account hands to its caller
ServiceAccountReturned(service_name, acc) ==
    Via(Response("get_or_create_service_account", 200, "none", None, acc, 0, None), service_name)

ServiceAccountFailed(service_name) ==
    Via(Failure("get_or_create_service_account", 500, "server_error"), service_name)

\* lines 46-50, up to the await of line 55 or 59
find_service_user(service_name) ==
    LET found == ServiceUser(users, service_name)
    IN  /\ Len(sessions) < MaxSessions
        /\ sessions' = Append(sessions,
              [op |-> "service_account", pc |-> IF found = None THEN "user" ELSE "account",
               service_name |-> service_name, user |-> found])
        /\ UNCHANGED <<db, now, resp>>

\* lines 53-56: the commit of the synthetic user
insert_service_user(k) ==
    LET ss == sessions[k]
        info == ServiceInfo(ss.service_name)
    IN  /\ ss.op = "service_account" /\ ss.pc = "user"
        /\ \E db_fails \in BOOLEAN :
            IF db_fails \/ PhoneTaken(users, info.phone) THEN
                \* line 55 raises (IntegrityError when the phone is taken)
                /\ sessions' = DropSession(k)
                /\ resp' = ServiceAccountFailed(ss.service_name)
                /\ UNCHANGED <<db, now>>
            ELSE
                /\ users' = Append(users, [phone |-> info.phone])
                /\ sessions' = [sessions EXCEPT ![k] =
                        [ss EXCEPT !.pc = "account", !.user = Len(users) + 1]]
                /\ UNCHANGED <<accounts, transactions, loans, schedules, deposits, insurances,
                               now, resp>>

\* lines 58-62 and 68
find_service_account(k) ==
    LET ss == sessions[k]
        acc == FirstAccount(accounts, ss.user)
    IN  /\ ss.op = "service_account" /\ ss.pc = "account"
        /\ IF acc = None THEN
                /\ sessions' = [sessions EXCEPT ![k] = [ss EXCEPT !.pc = "new_account"]]
                /\ resp' = resp
           ELSE /\ sessions' = DropSession(k)
                /\ resp' = ServiceAccountReturned(ss.service_name, acc)
        /\ UNCHANGED <<db, now>>

\* lines 63-68: the commit of the service account
insert_service_account(k) ==
    LET ss == sessions[k]
        info == ServiceInfo(ss.service_name)
    IN  /\ ss.op = "service_account" /\ ss.pc = "new_account"
        /\ sessions' = DropSession(k)
        /\ \E db_fails \in BOOLEAN :
            IF db_fails \/ CardTaken(accounts, info.card) THEN
                \* line 65 raises (IntegrityError when the card number is taken)
                /\ resp' = ServiceAccountFailed(ss.service_name)
                /\ UNCHANGED <<db, now>>
            ELSE
                /\ accounts' = Append(accounts, [user_id |-> ss.user, card_number |-> info.card,
                                                 balance |-> 0, is_blocked |-> FALSE])
                /\ resp' = ServiceAccountReturned(ss.service_name, Len(accounts) + 1)
                /\ UNCHANGED <<users, transactions, loans, schedules, deposits, insurances, now>>

\* categories: a configured one, the default one, two that are not configured
Categories == {"mobile", "other", "taxi", "ads"}

FindServiceUser ==
    /\ \E service_name \in Categories : find_service_user(service_name)
    /\ UNCHANGED <<phone, request, amortization>>

InsertServiceUser ==
    /\ \E k \in DOMAIN sessions : insert_service_user(k)
    /\ UNCHANGED <<phone, request, amortization>>

FindServiceAccount ==
    /\ \E k \in DOMAIN sessions : find_service_account(k)
    /\ UNCHANGED <<phone, request, amortization>>

InsertServiceAccount ==
    /\ \E k \in DOMAIN sessions : insert_service_account(k)
    /\ UNCHANGED <<phone, request, amortization>>

NextServiceAccounts ==
    FindServiceUser \/ InsertServiceUser \/ FindServiceAccount \/ InsertServiceAccount

SpecServiceAccounts == Init /\ [][NextServiceAccounts]_vars

\* payments of customer 1 to every kind of category
PayAnyService ==
    /\ \E service_name \in Categories, amount \in {0, CENT \div 2, CENT} :
          pay_service(1, service_name, amount)
    /\ UNCHANGED <<phone, request, amortization>>

NextServices == PayAnyService

SpecServices == Init /\ [][NextServices]_vars

(***************************************************************************)
(* apply_insurance (POST /insurance/apply)                                 *)
(***************************************************************************)
MaxInsurances == 1  \* rows of the insurances table

\* lines 30-38: the monthly cost of a coverage of one million
BaseCost(insurance_type) ==
    CASE insurance_type = "life" -> 5000
      [] insurance_type = "health" -> 8000
      [] insurance_type = "property" -> 3000
      [] insurance_type = "auto" -> 6000
      [] insurance_type = "travel" -> 2000
      [] OTHER -> 5000

\* lines 41-42, for coverages whose monthly cost has no fraction
MonthlyCost(insurance_type, coverage_amount) ==
    IF coverage_amount >= 0 THEN (BaseCost(insurance_type) * coverage_amount) \div 1000000
    ELSE -((BaseCost(insurance_type) * (-coverage_amount)) \div 1000000)

\* lines 63-72
InsuranceRow(u, insurance_type, monthly_cost, term) ==
    [user_id |-> u, insurance_type |-> insurance_type, monthly_cost |-> Numeric2(monthly_cost),
     term_months |-> term, is_active |-> TRUE]

\* lines 76-82
InsuranceFeeRow(a, total_cost, insurance_type) ==
    [from_account_id |-> a, to_account_id |-> None, amount |-> Numeric2(total_cost),
     category |-> <<"insurance", insurance_type>>]

apply_insurance(u, insurance_type, coverage_amount, term) ==
    LET monthly_cost == MonthlyCost(insurance_type, coverage_amount)
        total_cost == monthly_cost * term
        acc == FirstActiveAccount(accounts, u)
    IN  IF acc = None THEN
            resp' = Failure("apply_insurance", 400, "no_account") /\ UNCHANGED <<db, now, sessions>>
        ELSE IF accounts[acc].balance < total_cost THEN
            resp' = Failure("apply_insurance", 400, "insufficient") /\ UNCHANGED <<db, now, sessions>>
        ELSE \E db_fails \in BOOLEAN :
          IF db_fails THEN
            resp' = Failure("apply_insurance", 500, "db_error") /\ UNCHANGED <<db, now, sessions>>
          ELSE
            /\ Len(insurances) < MaxInsurances
            /\ accounts' = Debit(accounts, acc, total_cost)
            /\ insurances' = Append(insurances, InsuranceRow(u, insurance_type, monthly_cost, term))
            /\ transactions' = Logged(transactions, InsuranceFeeRow(acc, total_cost, insurance_type))
            /\ resp' = Response("apply_insurance", 200, "none", acc, None, total_cost,
                                Len(insurances) + 1)
            /\ UNCHANGED <<users, loans, schedules, deposits, now, sessions>>

(***************************************************************************)
(* cancel_insurance (POST /insurance/{insurance_id}/cancel)                *)
(***************************************************************************)
\* lines 135-139
OwnActiveInsurance(ins, u, insurance_id) ==
    /\ insurance_id \in DOMAIN ins
    /\ ins[insurance_id].user_id = u
    /\ ins[insurance_id].is_active

\* a faulty variant: the flag left as it is
DeactivatedNever(ins, insurance_id) == ins

\* line 142
Deactivated(ins, insurance_id) == [ins EXCEPT ![insurance_id].is_active = FALSE]

cancel_insurance(u, insurance_id) ==
    IF ~OwnActiveInsurance(insurances, u, insurance_id) THEN
        /\ resp' = By(About(Failure("cancel_insurance", 404, "insurance_not_found"), insurance_id), u)
        /\ UNCHANGED <<db, now, sessions>>
    ELSE \E db_fails \in BOOLEAN :
        IF db_fails THEN
            \* line 143 raises
            /\ resp' = By(About(Failure("cancel_insurance", 500, "server_error"), insurance_id), u)
            /\ UNCHANGED <<db, now, sessions>>
        ELSE
            /\ insurances' = Deactivated(insurances, insurance_id)
            /\ resp' = By(Response("cancel_insurance", 200, "none", None, None, 0, insurance_id), u)
            /\ UNCHANGED <<users, accounts, transactions, loans, schedules, deposits, now, sessions>>

\* InsuranceRequest: covers of 2.00 (life) and 1.25 (health) cost 0.01 a month
InsuranceProducts == {<<"life", 0>>, <<"life", 200 * CENT>>, <<"health", 125 * CENT>>}

BuyInsurance ==
    /\ \E u \in Customers, p \in InsuranceProducts, term \in {1, 2} :
          apply_insurance(u, p[1], p[2], term)
    /\ UNCHANGED <<phone, request, amortization>>

CancelInsurance ==
    /\ \E u \in Customers, insurance_id \in 1..MaxInsurances : cancel_insurance(u, insurance_id)
    /\ UNCHANGED <<phone, request, amortization>>

NextInsurance == BuyInsurance \/ CancelInsurance

SpecInsurance == Init /\ [][NextInsurance]_vars

(***************************************************************************)
(* Loans, deposits and policies of customers 1 and 2, and every customer   *)
(* asking to pay, close or cancel any of them.                             *)
(***************************************************************************)
OwnedLoan ==
    /\ \E u \in {1, 2} : apply_loan(u, CENT, 1, 10 * CENT, "installment", 0, 0)
    /\ UNCHANGED <<phone, request, amortization>>

OwnedDeposit ==
    /\ \E u \in {1, 2} : create_deposit(u, CENT, 1, "standard")
    /\ UNCHANGED <<phone, request, amortization>>

OwnedInsurance ==
    /\ \E u \in {1, 2} : apply_insurance(u, "life", 200 * CENT, 1)
    /\ UNCHANGED <<phone, request, amortization>>

PayAnyLoan ==
    /\ \E u \in Customers, loan_id \in 1..(MaxLoans + 1) : pay_loan_installment(u, loan_id)
    /\ UNCHANGED <<phone, request, amortization>>

CloseAnyDeposit ==
    /\ \E u \in Customers, deposit_id \in 1..(MaxDeposits + 1) : close_deposit(u, deposit_id)
    /\ UNCHANGED <<phone, request, amortization>>

CancelAnyInsurance ==
    /\ \E u \in Customers, insurance_id \in 1..(MaxInsurances + 1) : cancel_insurance(u, insurance_id)
    /\ UNCHANGED <<phone, request, amortization>>

NextOwnership ==
    \/ OwnedLoan
    \/ OwnedDeposit
    \/ OwnedInsurance
    \/ PayAnyLoan
    \/ CloseAnyDeposit
    \/ CancelAnyInsurance

SpecOwnership == Init /\ [][NextOwnership]_vars

(***************************************************************************)
(* Paying a loan off: an interest-free loan of term_months cents over      *)
(* term_months months has installments of 0.01 and is credited in full,    *)
(* so the borrower holds every installment.  The client calls              *)
(* pay_loan_installment again and again and the commit of line 285 does    *)
(* not fail for ever: a payment that stays possible is eventually made.    *)
(***************************************************************************)
FundedLoan ==
    /\ \E u \in {1, 2}, term_months \in 1..MaxTerm :
          apply_loan(u, term_months * CENT, term_months, 10 * CENT, "installment", 0, 0)
    /\ UNCHANGED <<phone, request, amortization>>

\* a pay_loan_installment that reaches line 287
InstallmentPaid == PayAnyLoan /\ resp'.code = 200

NextPayoff == FundedLoan \/ PayAnyLoan

SpecPayoff == Init /\ [][NextPayoff]_vars /\ WF_vars(InstallmentPaid)

(***************************************************************************)
(* Every handler that moves money, on the customers whose accounts may be  *)
(* blocked.                                                                *)
(***************************************************************************)
\* PayServiceRequest: a configured name and a name that is not configured;
\* amount is a float
ServiceNames == {"mobile", "taxi"}
ServiceAmounts == {-CENT, CENT}
\* InsuranceRequest.coverage_amount (a float): a life cover of 2.00 costs
\* 0.01 a month
Coverages == {-200 * CENT, 200 * CENT}

LedgerTransfers ==
    {<<2, f, <<<<"7","0","1","0","0","0","0","0","0","1">>, <<>>>>, CENT>> : f \in {None, 3, 4}}
        \cup {<<1, None, <<Phone2, <<>>>>, CENT>>,
              <<2, None, <<<<>>, <<"9","9","9","9","1","2","3","4">>>>, CENT>>}

MaxLedger == 2      \* rows of the log when every handler takes part

LedgerTransfer ==
    /\ Len(transactions) < MaxLedger
    /\ \E q \in LedgerTransfers : make_transfer(q[1], q[2], q[3][1], q[3][2], q[4])
    /\ UNCHANGED <<phone, request, amortization>>

PayService ==
    /\ Len(transactions) < MaxLedger
    /\ \E service_name \in ServiceNames, amount \in ServiceAmounts :
          pay_service(2, service_name, amount)
    /\ UNCHANGED <<phone, request, amortization>>

LedgerDeposit ==
    /\ Len(transactions) < MaxLedger
    /\ create_deposit(2, CENT, 1, "standard")
    /\ UNCHANGED <<phone, request, amortization>>

LedgerClose ==
    /\ Len(transactions) < MaxLedger
    /\ \E deposit_id \in 1..MaxDeposits : close_deposit(2, deposit_id)
    /\ UNCHANGED <<phone, request, amortization>>

ApplyInsurance ==
    /\ Len(transactions) < MaxLedger
    /\ \E coverage_amount \in Coverages : apply_insurance(2, "life", coverage_amount, 1)
    /\ UNCHANGED <<phone, request, amortization>>

LedgerLoan ==
    /\ Len(transactions) < MaxLedger
    /\ apply_loan(2, CENT, 1, 10 * CENT, "installment", 0, 0)
    /\ UNCHANGED <<phone, request, amortization>>

LedgerInstallment ==
    /\ Len(transactions) < MaxLedger
    /\ \E loan_id \in 1..MaxLoans : pay_loan_installment(2, loan_id)
    /\ UNCHANGED <<phone, request, amortization>>

NextLedger ==
    \/ LedgerTransfer
    \/ PayService
    \/ LedgerDeposit
    \/ LedgerClose
    \/ ApplyInsurance
    \/ LedgerLoan
    \/ LedgerInstallment

SpecLedger == InitBlocked /\ [][NextLedger]_vars

(***************************************************************************)
(* The claims.                                                             *)
(***************************************************************************)
TransferDone == resp'.op = "make_transfer" /\ resp'.code = 200
LoanDone == resp'.op = "apply_loan" /\ resp'.code = 200
InstallmentDone == resp'.op = "pay_loan_installment" /\ resp'.code = 200

\* C1: a successful internal transfer of amount A from S to R (S # R) takes
\* exactly A from S, gives exactly A to R, so that the sum of the two
\* balances is kept, and appends exactly one row with source S, destination
\* R and amount A.
C1_InternalTransferConserves ==
    [][ (TransferDone /\ resp'.dst # None) =>
          LET S == resp'.src
              R == resp'.dst
              A == resp'.amount
          IN  /\ S # R
              /\ accounts'[S].balance = accounts[S].balance - A
              /\ accounts'[R].balance = accounts[R].balance + A
              /\ accounts'[S].balance + accounts'[R].balance
                    = accounts[S].balance + accounts[R].balance
              /\ Len(transactions') = Len(transactions) + 1
              /\ SubSeq(transactions', 1, Len(transactions)) = transactions
              /\ transactions'[Len(transactions')].from_account_id = S
              /\ transactions'[Len(transactions')].to_account_id = R
              /\ transactions'[Len(transactions')].amount = A ]_vars

\* C2: in every reachable state every account has balance >= 0.
C2_NoNegativeBalance ==
    \A a \in DOMAIN accounts : accounts[a].balance >= 0

\* what the log says account a received and paid out
RECURSIVE LoggedIn(_, _)
LoggedIn(log, a) ==
    IF log = <<>> THEN 0
    ELSE (IF Head(log).to_account_id = a THEN Head(log).amount ELSE 0) + LoggedIn(Tail(log), a)
RECURSIVE LoggedOut(_, _)
LoggedOut(log, a) ==
    IF log = <<>> THEN 0
    ELSE (IF Head(log).from_account_id = a THEN Head(log).amount ELSE 0) + LoggedOut(Tail(log), a)

\* C3: debits of one account are serialized: requests running beside each
\* other never both pass the balance check on the same stale balance and
\* both commit, so every balance reflects every committed debit and credit
\* of the log and no account pays out more than it held and received.
C3_DebitsSerialized ==
    \A a \in DOMAIN accounts :
        /\ accounts[a].balance
              = InitialBalance(a) + LoggedIn(transactions, a) - LoggedOut(transactions, a)
        /\ LoggedOut(transactions, a) <= InitialBalance(a) + LoggedIn(transactions, a)

\* C4: a make_transfer that fails validation or a business rule (status
\* 400, 403 or 404) leaves every balance and the log as they were.
C4_FailedTransferChangesNothing ==
    [][ (resp'.op = "make_transfer" /\ resp'.code \in {400, 403, 404}) =>
          /\ accounts' = accounts
          /\ transactions' = transactions ]_vars

\* a transfer was rejected as a same-card transfer after earlier transfers
\* had gone through
C4_Witness ==
    /\ resp.op = "make_transfer" /\ resp.err = "same_card"
    /\ transactions # <<>>

\* C5: loan origination is all-or-nothing: whenever a Loan row exists, its
\* term_months schedule rows and its disbursement row exist too.
C5_LoanAllOrNothing ==
    /\ \A l \in DOMAIN loans :
          Cardinality({i \in DOMAIN schedules : schedules[i].loan_id = l})
              >= loans[l].term_months
    /\ Cardinality({i \in DOMAIN transactions :
                       /\ transactions[i].from_account_id = None
                       /\ transactions[i].category[1] = "loan_credit"}) = Len(loans)

\* C6: a transfer to a card that matches no account never fails with
\* recipient-not-found; when it succeeds it takes the amount from the sender
\* only and appends one source-only row whose category carries the card's
\* last four characters.
C6_UnknownCardIsExternal ==
    [][ (resp'.op = "make_transfer" /\ resp'.via = "card") =>
          /\ resp'.err # "client_not_found"
          /\ (resp'.code = 200 /\ resp'.dst = None) =>
                LET S == resp'.src
                    A == resp'.amount
                IN  /\ accounts' = [accounts EXCEPT ![S].balance = accounts[S].balance - A]
                    /\ Len(transactions') = Len(transactions) + 1
                    /\ SubSeq(transactions', 1, Len(transactions)) = transactions
                    /\ transactions'[Len(transactions')].from_account_id = S
                    /\ transactions'[Len(transactions')].to_account_id = None
                    /\ transactions'[Len(transactions')].amount = A
                    /\ Len(transactions'[Len(transactions')].category) = 5
                    /\ transactions'[Len(transactions')].category[1] = "transfer_to_other_bank" ]_vars

\* C7: every Transaction row ever logged has amount > 0 (zero and negative
\* request amounts are rejected).
C7_LoggedAmountsPositive ==
    \A i \in DOMAIN transactions : transactions[i].amount > 0

PaidPrefix ==
    \A i \in DOMAIN schedules, j \in DOMAIN schedules :
        ( /\ schedules[i].loan_id = schedules[j].loan_id
          /\ schedules[i].due_date < schedules[j].due_date
          /\ schedules[j].is_paid ) => schedules[i].is_paid

\* C8: a successful pay_loan_installment marks paid exactly the unpaid entry
\* of the loan with the earliest due date, so the paid entries of a loan are
\* always a prefix of its schedule in due-date order.
C8_EarliestUnpaidFirst ==
    [][ InstallmentDone =>
          LET e == resp'.ref
          IN  /\ ~schedules[e].is_paid
              /\ \A j \in DOMAIN schedules :
                    (schedules[j].loan_id = schedules[e].loan_id /\ ~schedules[j].is_paid)
                        => schedules[e].due_date <= schedules[j].due_date
              /\ schedules' = [schedules EXCEPT ![e].is_paid = TRUE]
              /\ PaidPrefix' ]_vars

\* an installment was paid on a loan that still has a later entry unpaid
C8_Witness ==
    /\ resp.op = "pay_loan_installment" /\ resp.code = 200
    /\ \E i \in DOMAIN schedules, j \in DOMAIN schedules :
          /\ schedules[i].loan_id = schedules[j].loan_id
          /\ schedules[i].is_paid /\ ~schedules[j].is_paid
          /\ schedules[i].due_date < schedules[j].due_date

HasUnpaid(scheds, l) == \E i \in DOMAIN scheds : scheds[i].loan_id = l /\ ~scheds[i].is_paid

\* C9: once a loan is originated it is active exactly while it has an unpaid
\* entry: active with an unpaid entry after origination, and after each
\* payment active if and only if an unpaid entry remains.
C9_ActiveIffUnpaid ==
    [][ /\ LoanDone =>
              /\ loans'[resp'.ref].is_active
              /\ HasUnpaid(schedules', resp'.ref)
        /\ InstallmentDone =>
              LET l == schedules[resp'.ref].loan_id
              IN  /\ loans[l].is_active
                  /\ loans'[l].is_active <=> HasUnpaid(schedules', l) ]_vars

\* C10: a successful apply_loan with term_months = N adds exactly N schedule
\* entries for the new loan, all unpaid, all carrying the monthly payment,
\* the i-th due 30 * i days after origination.
C10_ScheduleGenerated ==
    [][ LoanDone =>
          LET l == resp'.ref
              N == loans'[l].term_months
              added == SubSeq(schedules', Len(schedules) + 1, Len(schedules'))
          IN  /\ SubSeq(schedules', 1, Len(schedules)) = schedules
              /\ Len(added) = N
              /\ \A i \in DOMAIN added :
                    /\ added[i].loan_id = l
                    /\ ~added[i].is_paid
                    /\ added[i].amount = loans'[l].monthly_payment
                    /\ added[i].due_date = loans'[l].created_at + DaysPerMonth * i ]_vars

\* C11: a successful close_deposit credits exactly the principal of the
\* deposit, which was active, to an account of its owner, sets the deposit
\* inactive and appends one destination-only row of the principal; a close
\* of a deposit that is already inactive answers not-found and changes
\* nothing.
C11_ClosePaysPrincipalOnce ==
    [][ resp'.op = "close_deposit" =>
          LET d == resp'.ref
              a == resp'.dst
          IN  /\ resp'.code = 200 =>
                    /\ deposits[d].is_active
                    /\ accounts[a].user_id = deposits[d].user_id
                    /\ accounts' = [accounts EXCEPT ![a].balance = accounts[a].balance + deposits[d].amount]
                    /\ deposits' = [deposits EXCEPT ![d].is_active = FALSE]
                    /\ transactions' = Append(transactions,
                           [from_account_id |-> None, to_account_id |-> a,
                            amount |-> deposits[d].amount, category |-> <<"deposit_close">>])
              /\ (d \in DOMAIN deposits /\ ~deposits[d].is_active) =>
                    /\ resp'.code = 404
                    /\ UNCHANGED db ]_vars

\* a deposit was closed, and a second close of it was answered not-found
C11_Witness ==
    /\ resp.op = "close_deposit" /\ resp.code = 404
    /\ resp.ref \in DOMAIN deposits
    /\ ~deposits[resp.ref].is_active
    /\ \E i \in DOMAIN transactions : transactions[i].category = <<"deposit_close">>

\* C12: however close_deposit requests for one deposit run beside each
\* other, the principal is credited once: there are never more closure rows
\* in the log than deposits that were closed.
C12_ClosedOnce ==
    Cardinality({i \in DOMAIN transactions : transactions[i].category = <<"deposit_close">>})
        <= Cardinality({d \in DOMAIN deposits : ~deposits[d].is_active})

\* C13: however pay_loan_installment requests run beside each other, every
\* installment that is charged marks an entry of its own paid: there are
\* never more repayment rows in the log than schedule entries marked paid.
C13_EntryChargedOnce ==
    Cardinality({i \in DOMAIN transactions : transactions[i].category[1] = "loan_repayment"})
        <= Cardinality({e \in DOMAIN schedules : schedules[e].is_paid})

\* C14: a make_transfer whose from_account_id names an account that is not
\* the requesting customer's fails and debits no account.
C14_ForeignSourceRejected ==
    [][ ( /\ resp'.op = "make_transfer"
          /\ resp'.ref # None
          /\ ~(resp'.ref \in DOMAIN accounts /\ accounts[resp'.ref].user_id = resp'.user) ) =>
            /\ resp'.code # 200
            /\ accounts' = accounts ]_vars

\* C15: a make_transfer without from_account_id debits the requester's
\* first non-blocked account that holds the amount; when none holds it the
\* request fails with insufficient funds, and when the requester has no
\* non-blocked account it fails with no-usable-account.
C15_AutomaticSender ==
    [][ (resp'.op = "make_transfer" /\ resp'.ref = None) =>
          LET active == {i \in DOMAIN accounts :
                            accounts[i].user_id = resp'.user /\ ~accounts[i].is_blocked}
              funded == {i \in active : accounts[i].balance >= resp'.amount}
          IN  /\ active = {} => (resp'.code = 400 /\ resp'.err = "no_card")
              /\ (active # {} /\ funded = {}) => (resp'.code = 400 /\ resp'.err = "insufficient")
              /\ funded # {} =>
                    /\ resp'.err \notin {"no_card", "blocked", "insufficient"}
                    /\ resp'.code = 200 =>
                          /\ resp'.src \in funded
                          /\ \A j \in funded : resp'.src <= j ]_vars

\* the requester's first account is open but lacked the amount, and the
\* second one was debited
C15_Witness ==
    /\ resp.op = "make_transfer" /\ resp.ref = None /\ resp.code = 200
    /\ resp.user = 1 /\ resp.src = 2
    /\ ~accounts[1].is_blocked

Digits == {"0", "1", "2", "3", "4", "5", "6", "7", "8", "9"}
Canonical(p) == Len(p) = 11 /\ Head(p) = "8" /\ \A i \in DOMAIN p : p[i] \in Digits

\* C16: the phone normalization is idempotent (a number that is canonical,
\* or that is itself the result of the normalization, comes out unchanged)
\* and canonicalizing (every way of writing one ten-digit national number
\* comes out as the same canonical string, 8 followed by the number).
C16_PhoneNormalization ==
    phone.pc = "cleaned" =>
        /\ Canonical(phone.to_phone) => phone.clean_phone = phone.to_phone
        /\ phone.resent => phone.clean_phone = phone.to_phone
        /\ \A n \in Nationals, st \in PhoneStyles :
              phone.to_phone = Variant(n, st) =>
                  (phone.clean_phone = <<"8">> \o n /\ Canonical(phone.clean_phone))

\* a number written with punctuation was normalized, sent again and
\* normalized again
C16_Witness ==
    /\ phone.pc = "cleaned" /\ phone.resent
    /\ Canonical(phone.clean_phone)
    /\ phone.clean_phone = <<"8", "7", "8", "0", "1", "0", "0", "0", "0", "0", "2">>

\* C17: a make_transfer with a to_phone whose normalized form is the phone
\* of no user never succeeds and changes nothing (it is never carried out as
\* a transfer to another bank); once the sender has passed its checks it is
\* answered recipient-not-found.
C17_UnknownPhoneRejected ==
    [][ ( /\ resp'.op = "make_transfer"
          /\ resp'.to_phone # <<>>
          /\ \A u \in DOMAIN users : users[u].phone # CleanPhone(resp'.to_phone) ) =>
            /\ resp'.code # 200
            /\ UNCHANGED db
            /\ resp'.err \notin {"no_card", "blocked", "insufficient"} =>
                  (resp'.code = 404 /\ resp'.err = "client_not_found") ]_vars

\* C18: a transfer addressed by the phone of an existing user credits that
\* user's first non-blocked account, or the user's first account when all
\* of them are blocked; when the user has no account the request fails with
\* no-recipient-account and changes nothing.
C18_RecipientByPhone ==
    [][ (resp'.op = "make_transfer" /\ resp'.via = "phone" /\ resp'.err # "client_not_found") =>
          LET found == {u \in DOMAIN users : users[u].phone = CleanPhone(resp'.to_phone)}
              owned == {i \in DOMAIN accounts : accounts[i].user_id \in found}
              open == {i \in owned : ~accounts[i].is_blocked}
          IN  /\ found # {}
              /\ owned = {} =>
                    /\ resp'.code = 400 /\ resp'.err = "no_recipient_card"
                    /\ UNCHANGED db
              /\ resp'.code = 200 =>
                    /\ resp'.dst \in owned
                    /\ accounts'[resp'.dst].balance = accounts[resp'.dst].balance + resp'.amount
                    /\ IF open # {} THEN resp'.dst \in open /\ \A j \in open : resp'.dst <= j
                       ELSE \A j \in owned : resp'.dst <= j ]_vars

\* the recipient's first account is blocked, the second is not, and the
\* second was credited
C18_Witness ==
    /\ resp.op = "make_transfer" /\ resp.via = "phone" /\ resp.code = 200
    /\ resp.dst = 4
    /\ accounts[3].is_blocked /\ ~accounts[4].is_blocked

\* all accounts of the recipient are blocked and the first one was credited
C18_WitnessAllBlocked ==
    /\ resp.op = "make_transfer" /\ resp.via = "phone" /\ resp.code = 200
    /\ resp.dst = 3
    /\ accounts[3].is_blocked /\ accounts[4].is_blocked

\* C19: make_transfer never moves money from an account to itself: a
\* request whose sender and recipient are the same account, the recipient
\* found by phone or by card, is answered with the same-account error and
\* changes nothing, a successful transfer has different sender and
\* recipient, and no row of the log has from_account_id = to_account_id.
C19_NoTransferToSelf ==
    [][ /\ resp'.op = "make_transfer" =>
              /\ resp'.code = 200 => resp'.src # resp'.dst
              /\ resp'.err = "same_card" => (resp'.code = 400 /\ UNCHANGED db)
        /\ \A i \in DOMAIN transactions' :
              transactions'[i].from_account_id # transactions'[i].to_account_id ]_vars

\* the card of the account that pays was given as the recipient
C19_Witness ==
    /\ resp.op = "make_transfer" /\ resp.err = "same_card" /\ resp.via = "card"
    /\ resp.ref = None

\* C20: blocking stops outflow only: no step of any handler lowers the
\* balance of a blocked account, a transfer whose sender is blocked is
\* answered account-blocked and changes nothing, and a blocked account may
\* still be credited.
C20_BlockedNeverDebited ==
    [][ /\ \A a \in DOMAIN accounts :
              accounts[a].is_blocked => accounts'[a].balance >= accounts[a].balance
        /\ ( /\ resp'.op = "make_transfer"
             /\ resp'.ref \in DOMAIN accounts
             /\ accounts[resp'.ref].user_id = resp'.user
             /\ accounts[resp'.ref].is_blocked ) =>
                (resp'.code = 403 /\ resp'.err = "blocked" /\ UNCHANGED db)
        /\ resp'.err = "blocked" => UNCHANGED db ]_vars

\* a blocked account that holds money was named as the sender and refused,
\* after a blocked account had been credited
C20_Witness ==
    /\ resp.op = "make_transfer" /\ resp.err = "blocked"
    /\ resp.ref = 3 /\ accounts[3].is_blocked
    /\ accounts[3].balance > BlockedBalance(3)

\* C21: apply_loan with a term_months that is zero or negative is refused and
\* creates nothing, so every row of the loans table carries a term of at
\* least one month and every answer of apply_loan that leaves a new Loan row
\* behind belongs to a request with a positive term.
C21_InvalidTermRejected ==
    [][ (resp'.op = "apply_loan" /\ Len(loans') > Len(loans)) =>
            loans'[Len(loans')].term_months >= 1 ]_vars

\* the unpaid entries of loan l, and the account customer u pays from
UnpaidOf(l) == {i \in DOMAIN schedules : schedules[i].loan_id = l /\ ~schedules[i].is_paid}
PayingAccounts(u) == {a \in DOMAIN accounts : accounts[a].user_id = u /\ ~accounts[a].is_blocked}
Affordable(u, l) ==
    /\ PayingAccounts(u) # {}
    /\ \E i \in UnpaidOf(l) :
          /\ \A j \in UnpaidOf(l) : schedules[i].due_date <= schedules[j].due_date
          /\ accounts[Min(PayingAccounts(u))].balance >= schedules[i].amount

\* C22: pay_loan_installment on an active loan of the requester answers
\* no-pending-installments when the loan has no unpaid entry and
\* insufficient-funds when the paying account holds less than the next
\* entry's amount, both without touching any table; otherwise (unless the
\* database refuses the commit, which changes nothing either) it takes
\* exactly the entry's amount from the paying account, marks exactly that
\* entry paid and appends exactly one source-only row of that amount.
C22_InstallmentOutcomes ==
    [][ /\ (resp'.op = "pay_loan_installment" /\ resp'.code # 200) =>
              LET l == resp'.ref
                  u == resp'.user
              IN  /\ UNCHANGED db
                  /\ (l \in DOMAIN loans /\ loans[l].user_id = u /\ loans[l].is_active) =>
                        /\ UnpaidOf(l) = {} => resp'.err = "all_paid"
                        /\ (UnpaidOf(l) # {} /\ ~Affordable(u, l)) => resp'.err = "insufficient"
                        /\ (UnpaidOf(l) # {} /\ Affordable(u, l)) => resp'.err = "db_error"
        /\ InstallmentDone =>
              LET e == resp'.ref
                  a == resp'.src
                  l == schedules[e].loan_id
              IN  /\ loans[l].is_active /\ loans[l].user_id = resp'.user
                  /\ e \in UnpaidOf(l)
                  /\ Affordable(resp'.user, l)
                  /\ a = Min(PayingAccounts(resp'.user))
                  /\ accounts'[a].balance = accounts[a].balance - schedules[e].amount
                  /\ \A b \in DOMAIN accounts : b # a => accounts'[b] = accounts[b]
                  /\ schedules' = [schedules EXCEPT ![e].is_paid = TRUE]
                  /\ Len(transactions') = Len(transactions) + 1
                  /\ SubSeq(transactions', 1, Len(transactions)) = transactions
                  /\ LET row == transactions'[Len(transactions')]
                     IN  /\ row.from_account_id = a
                         /\ row.to_account_id = None
                         /\ row.amount = schedules[e].amount ]_vars

\* an installment has been paid with the last cent of the paying account
C22_Witness ==
    /\ resp.op = "pay_loan_installment" /\ resp.code = 200
    /\ schedules[resp.ref].is_paid
    /\ schedules[resp.ref].amount > 0
    /\ accounts[resp.src].balance = 0
    /\ transactions[Len(transactions)].from_account_id = resp.src

\* C23: apply_loan originates a loan only if the monthly payment does not
\* exceed income x minIncomeRatio[type]; an application whose payment
\* exceeds that bound is answered with the insufficient-income error, which
\* reports the minimum qualifying income payment / ratio in whole currency
\* units, and no Loan, schedule entry, balance or Transaction row changes.
C23_AffordabilityChecked ==
    [][ resp'.op = "apply_loan" =>
          LET req == request'
              payment == Payment(req.amount, req.type, req.term_months)
              ratio == MinIncomeRatio(req.type)
              exceeds == payment[1] * ratio[2] > req.income * ratio[1] * payment[2]
          IN  /\ Len(loans') > Len(loans) => ~exceeds
              /\ exceeds =>
                    /\ resp'.code = 400 /\ resp'.err = "low_income"
                    /\ UNCHANGED db
                    \* reported * ratio <= payment < (reported + 1) * ratio
                    /\ resp'.amount * TENGE * ratio[1] * payment[2] <= payment[1] * ratio[2]
                    /\ payment[1] * ratio[2] < (resp'.amount + 1) * TENGE * ratio[1] * payment[2]
              /\ resp'.err = "low_income" => exceeds ]_vars

\* an application was refused for an income of 2.00 where 2.50 is needed,
\* while another one has been granted
C23_Witness ==
    /\ resp.op = "apply_loan" /\ resp.err = "low_income" /\ resp.amount = 2
    /\ request.income = 2 * TENGE
    /\ Len(loans) = 1

RECURSIVE Total(_)
Total(entries) == IF entries = <<>> THEN 0 ELSE Head(entries).amount + Total(Tail(entries))

\* C24: the schedule persisted for a zero-rate loan (installment, bellyred,
\* red) of principal P over N months holds N amounts of two decimal places
\* that sum to exactly P, all equal except that the last one takes the
\* rounding residual; 100,000.00 over 4 months gives four times 25,000.00.
C24_ZeroRateScheduleSumsToPrincipal ==
    [][ (LoanDone /\ request'.type \in {"installment", "bellyred", "red"}
                  /\ request'.term_months >= 1) =>
          LET N == request'.term_months
              P == request'.amount
              added == SubSeq(schedules', Len(schedules) + 1, Len(schedules'))
          IN  /\ Len(added) = N
              /\ \A i \in 1..N : added[i].amount % CENT = 0
              /\ \A i \in 1..(N - 1) : added[i].amount = added[1].amount
              /\ Total(added) = P
              /\ (P = 100000 * TENGE /\ N = 4) =>
                    \A i \in 1..N : added[i].amount = 25000 * TENGE ]_vars

\* what is outstanding is within one currency unit of zero
PaidOff(am) ==
    /\ BigLeq(am.owed, BigPlus(am.paid, BigTimes(am.scale, TENGE)))
    /\ BigLeq(am.paid, BigPlus(am.owed, BigTimes(am.scale, TENGE)))

\* C25: for a rate above zero the monthly payment computed by apply_loan
\* satisfies the annuity identity: term_months equal payments, with the
\* monthly rate accrued on the outstanding balance each month, bring the
\* balance from the principal to zero within one currency unit; so for
\* 120,000 at 0.15 over 12 months.  For the amounts that fit a machine word
\* the payment is the one of the loan row.
C25_AnnuityIdentity ==
    /\ (amortization.payment # None /\ amortization.month = amortization.term_months) =>
            PaidOff(amortization)
    /\ (amortization.payment # None /\ amortization.amount = CENT) =>
            amortization.payment =
                NumericFrac(Payment(amortization.amount, amortization.type,
                                    amortization.term_months))

\* 120,000 at 0.15 over 12 months, the twelfth payment made
C25_Witness ==
    /\ amortization.amount = 120000 * TENGE /\ amortization.type = "cash"
    /\ amortization.term_months = 12 /\ amortization.month = 12
    /\ amortization.payment = 1083100 * CENT

\* the synthetic users and the service accounts of a category
SyntheticUsers(usrs, service_name) ==
    {u \in DOMAIN usrs : usrs[u].phone = ServiceInfo(service_name).phone}
ServiceAccounts(usrs, accs, service_name) ==
    {a \in DOMAIN accs : accs[a].user_id \in SyntheticUsers(usrs, service_name)}

\* C26: get_or_create_service_account is find-or-create idempotent per
\* category: whatever the interleaving of the calls, at most one synthetic
\* user and at most one service account exist for a category, and every
\* call that returns hands out that account.
C26_ServiceAccountIdempotent ==
    [][ /\ \A c \in Categories :
              /\ Cardinality(SyntheticUsers(users', c)) <= 1
              /\ Cardinality(ServiceAccounts(users', accounts', c)) <= 1
        /\ (resp'.op = "get_or_create_service_account" /\ resp'.code = 200) =>
              ServiceAccounts(users', accounts', resp'.via) = {resp'.dst} ]_vars

\* two first uses of a category ran beside each other: one created the user
\* and the account, the other one, which had not found the user either, is
\* waiting to insert it
C26_Witness ==
    \E k \in DOMAIN sessions :
        /\ sessions[k].op = "service_account" /\ sessions[k].pc = "user"
        /\ resp.op = "get_or_create_service_account" /\ resp.code = 200
        /\ resp.via = sessions[k].service_name
        /\ ServiceAccounts(users, accounts, resp.via) = {resp.dst}

\* the rows of the log that pay for a category of the given names
PaidFor(names) ==
    {i \in DOMAIN transactions :
        /\ transactions[i].category[1] = "service_payment"
        /\ transactions[i].category[2] \in names}

\* C27: a service payment whose category is not configured goes to the one
\* "other services" account: any two payments for unrecognized names are
\* credited to the same account, which is the account a payment for the
\* default category is credited to, and not the account of a configured
\* category.
C27_UnknownCategoryToDefault ==
    /\ \A i, j \in PaidFor({"taxi", "ads", "other"}) :
          transactions[i].to_account_id = transactions[j].to_account_id
    /\ \A i \in PaidFor({"taxi", "ads", "other"}), j \in PaidFor({"mobile"}) :
          transactions[i].to_account_id # transactions[j].to_account_id
    /\ \A i \in PaidFor({"taxi", "ads", "other"}) :
          /\ transactions[i].to_account_id \in DOMAIN accounts
          /\ accounts[transactions[i].to_account_id].card_number = <<"OTH_001">>

\* two payments for two names that are not configured, both logged
C27_Witness ==
    /\ Len(transactions) = 2
    /\ transactions[1].category = <<"service_payment", "taxi">>
    /\ transactions[2].category = <<"service_payment", "ads">>
    /\ transactions[1].to_account_id = transactions[2].to_account_id

\* the shape of a row: which of its two account references are set
Shape(row) ==
    IF row.from_account_id # None
    THEN (IF row.to_account_id # None THEN "both" ELSE "source")
    ELSE (IF row.to_account_id # None THEN "destination" ELSE "neither")

\* C28: every Transaction row has at least one of from_account_id and
\* to_account_id set, and the operation that writes it fixes which:
\* internal transfers and service payments set both, external transfers,
\* deposit creation, insurance purchase and installment payments the source
\* only, loan disbursement and deposit closure the destination only.
C28_RowShapes ==
    [][ /\ \A i \in DOMAIN transactions' : Shape(transactions'[i]) # "neither"
        /\ \A i \in (Len(transactions) + 1)..Len(transactions') :
              LET row == transactions'[i]
              IN  Shape(row) =
                    CASE resp'.op = "make_transfer" ->
                            IF row.category[1] = "transfer_to_client" THEN "both" ELSE "source"
                      [] resp'.op = "pay_service" -> "both"
                      [] resp'.op \in {"create_deposit", "apply_insurance", "pay_loan_installment"} ->
                            "source"
                      [] resp'.op \in {"apply_loan", "close_deposit"} -> "destination"
                      [] OTHER -> "neither" ]_vars

\* the log holds a loan disbursement followed by a row with a source
C28_Witness ==
    /\ Len(transactions) = 2
    /\ Shape(transactions[1]) = "destination" /\ transactions[1].category[1] = "loan_credit"
    /\ Shape(transactions[2]) \in {"both", "source"}

\* C29: the Transaction log is append-only: whatever an operation does,
\* success, refusal or rollback, the committed rows stay as they are and in
\* their places; the log only grows.
C29_LogAppendOnly ==
    [][ /\ Len(transactions') >= Len(transactions)
        /\ SubSeq(transactions', 1, Len(transactions)) = transactions ]_vars

\* a request was rolled back after a row had been logged
C29_Witness ==
    /\ Len(transactions) = 1
    /\ resp.code = 500 /\ resp.err = "db_error"

\* C30: cancel_insurance on an active policy of the requester sets the
\* policy inactive and refunds nothing: no balance and no row of the log
\* changes, nor anything else but the flag; a cancel of a policy that has
\* been cancelled answers not-found and changes nothing.
C30_CancelRefundsNothing ==
    [][ resp'.op = "cancel_insurance" =>
          LET p == resp'.ref
              u == resp'.user
          IN  /\ resp'.code = 200 =>
                    /\ p \in DOMAIN insurances
                    /\ insurances[p].user_id = u /\ insurances[p].is_active
                    /\ ~insurances'[p].is_active
                    /\ \A q \in DOMAIN insurances : q # p => insurances'[q] = insurances[q]
                    /\ [insurances'[p] EXCEPT !.is_active = TRUE] = insurances[p]
                    /\ UNCHANGED <<users, accounts, transactions, loans, schedules, deposits>>
              /\ (p \in DOMAIN insurances /\ ~insurances[p].is_active) =>
                    /\ resp'.code = 404
                    /\ UNCHANGED db ]_vars

\* the owner of a cancelled policy has asked to cancel it once more
C30_Witness ==
    /\ resp.op = "cancel_insurance" /\ resp.code = 404
    /\ resp.ref \in DOMAIN insurances
    /\ insurances[resp.ref].user_id = resp.user
    /\ ~insurances[resp.ref].is_active
    /\ insurances[resp.ref].monthly_cost > 0

\* the row of table rows that customer u may act on
OwnActive(rows, u, id) == id \in DOMAIN rows /\ rows[id].user_id = u /\ rows[id].is_active

\* C31: pay_loan_installment, close_deposit and cancel_insurance asked for
\* a loan, deposit or policy that belongs to another customer, does not
\* exist or is inactive answer not-found and change no table; whenever one
\* of them succeeds, the entity was an active one of the requester.
C31_ForeignEntityNotFound ==
    [][ /\ (resp'.op = "pay_loan_installment" /\ resp'.code # 200
                /\ ~OwnActive(loans, resp'.user, resp'.ref)) =>
              resp'.code = 404 /\ UNCHANGED db
        /\ InstallmentDone =>
              OwnActive(loans, resp'.user, schedules[resp'.ref].loan_id)
        /\ (resp'.op = "close_deposit" /\ ~OwnActive(deposits, resp'.user, resp'.ref)) =>
              resp'.code = 404 /\ UNCHANGED db
        /\ (resp'.op = "cancel_insurance" /\ ~OwnActive(insurances, resp'.user, resp'.ref)) =>
              resp'.code = 404 /\ UNCHANGED db
        /\ \A l \in DOMAIN loans, e \in DOMAIN schedules :
              (schedules'[e] # schedules[e] /\ schedules[e].loan_id = l) =>
                    resp'.user = loans[l].user_id
        /\ \A d \in DOMAIN deposits :
              deposits'[d] # deposits[d] => resp'.user = deposits[d].user_id
        /\ \A p \in DOMAIN insurances :
              insurances'[p] # insurances[p] => resp'.user = insurances[p].user_id ]_vars

\* a customer asked to close an active deposit of another customer
C31_Witness ==
    /\ resp.op = "close_deposit" /\ resp.code = 404
    /\ resp.ref \in DOMAIN deposits
    /\ deposits[resp.ref].is_active
    /\ deposits[resp.ref].user_id # resp.user
    /\ resp.user \in {1, 2}

\* C32: a make_transfer that names no recipient (to_phone and to_card both
\* absent) never succeeds and changes nothing: no account is debited and no
\* Transaction row is written.
C32_NoRecipientRejected ==
    [][ ( /\ resp'.op = "make_transfer"
          /\ resp'.to_phone = <<>>
          /\ resp'.via = "nobody" ) =>
            /\ resp'.code # 200
            /\ UNCHANGED db ]_vars

\* C33: the transaction log justifies every balance: in every reachable
\* state, whatever the order and the interleaving of the requests, each
\* account holds its initial balance plus the amounts of the committed rows
\* that name it as destination minus the amounts of the committed rows that
\* name it as source.
C33_LogJustifiesBalances ==
    \A a \in DOMAIN accounts :
        accounts[a].balance - InitialBalance(a)
            = LoggedIn(transactions, a) - LoggedOut(transactions, a)

\* C34: a pay_service that succeeds with amount A takes exactly A from the
\* payer's first non-blocked account, adds exactly A to the service account
\* (the sum of the two balances stays) and appends exactly one row from the
\* payer's account to the service account with amount A; a pay_service
\* refused for want of a non-blocked account or of funds changes no balance.
C34_ServicePaymentExact ==
    [][ resp'.op = "pay_service" =>
          /\ resp'.code = 200 =>
               LET payer == resp'.src
                   service == resp'.dst
                   before == IF service \in DOMAIN accounts THEN accounts[service].balance ELSE 0
               IN  /\ payer = FirstActiveAccount(accounts, accounts[payer].user_id)
                   /\ accounts'[payer].balance = accounts[payer].balance - resp'.amount
                   /\ accounts'[service].balance = before + resp'.amount
                   /\ accounts'[payer].balance + accounts'[service].balance
                         = accounts[payer].balance + before
                   /\ Len(transactions') = Len(transactions) + 1
                   /\ SubSeq(transactions', 1, Len(transactions)) = transactions
                   /\ transactions'[Len(transactions')].from_account_id = payer
                   /\ transactions'[Len(transactions')].to_account_id = service
                   /\ transactions'[Len(transactions')].amount = resp'.amount
          /\ resp'.err \in {"no_account", "insufficient"} =>
               /\ resp'.code = 400
               /\ accounts' = accounts ]_vars

EntriesOf(scheds, l) == {i \in DOMAIN scheds : scheds[i].loan_id = l}
PaidOf(scheds, l) == {i \in EntriesOf(scheds, l) : scheds[i].is_paid}
Originated(l) == l \in DOMAIN loans /\ EntriesOf(schedules, l) # {}

\* C35: paying a loan off terminates.  For a loan originated with N >= 1
\* schedule entries: every successful pay_loan_installment is made on the
\* active loan and pays exactly one more entry, and nothing else pays an
\* entry; the loan is active while fewer than N entries are paid and
\* inactive once N are, so exactly N calls succeed and the N-th closes the
\* loan; every call on the closed loan is answered not-found and changes
\* nothing; and while the borrower can afford the next installment and the
\* calls go on, the loan eventually becomes inactive.
C35_PayoffTerminates ==
    /\ [](\A l \in DOMAIN loans : Originated(l) =>
            (loans[l].is_active <=>
                Cardinality(PaidOf(schedules, l)) < Cardinality(EntriesOf(schedules, l))))
    /\ [][ \A l \in DOMAIN loans : Originated(l) =>
            LET paid == resp'.op = "pay_loan_installment" /\ resp'.code = 200
                         /\ schedules[resp'.ref].loan_id = l
            IN  /\ paid =>
                     /\ loans[l].is_active
                     /\ resp'.user = loans[l].user_id
                     /\ resp'.ref \notin PaidOf(schedules, l)
                     /\ PaidOf(schedules', l) = PaidOf(schedules, l) \cup {resp'.ref}
                     /\ EntriesOf(schedules', l) = EntriesOf(schedules, l)
                /\ PaidOf(schedules', l) # PaidOf(schedules, l) => paid
                /\ ( /\ ~loans[l].is_active
                     /\ resp'.op = "pay_loan_installment"
                     /\ resp'.code # 200
                     /\ resp'.ref = l ) =>
                        /\ resp'.code = 404
                        /\ resp'.err = "loan_not_found"
                        /\ UNCHANGED db ]_vars
    /\ \A l \in 1..MaxLoans :
          (Originated(l) /\ loans[l].is_active)
              ~> (Originated(l) /\ (loans[l].is_active => ~Affordable(loans[l].user_id, l)))

\* a loan of two installments, both paid, closed, and a further call of
\* its borrower answered not-found
C35_Witness ==
    /\ resp.op = "pay_loan_installment" /\ resp.code = 404
    /\ resp.ref \in DOMAIN loans
    /\ resp.user = loans[resp.ref].user_id
    /\ ~loans[resp.ref].is_active
    /\ Cardinality(EntriesOf(schedules, resp.ref)) = 2
    /\ PaidOf(schedules, resp.ref) = EntriesOf(schedules, resp.ref)

=============================================================================
